---- MODULE Spec2Model ----
(***************************************************************************)
(* Reconciliation core of the MySQL NDB operator: the sync loop of        *)
(* pkg/controllers/sync_context.go, the MySQL Server StatefulSet           *)
(* controller, the config generator and the spec validation.               *)
(*                                                                         *)
(* One reconciliation tick (SyncContext.sync) is one action.  The other    *)
(* actions are the environment: the user updating the NdbCluster spec,     *)
(* the StatefulSet controllers restarting stopped nodes, nodes going down. *)
(***************************************************************************)
EXTENDS Integers, Sequences, FiniteSets, TLC

\* ----------------------------------------------------------------- bounds
\* highest metadata.generation the user drives the NdbCluster to
MaxGeneration == 3
\* highest spec.mysqld.nodeCount the user asks for
MaxMySQLServers == 2
\* number of unrequested node failures in a behaviour
MaxCrashes == 1

\* ticks stopping data nodes that are counted per config generation
MaxStopTicks == 3

\* InSync events that are counted per resource generation
MaxInSyncEvents == 2

\* renderings of one spec that are compared
MaxRenders == 2

\* ------------------------------------------------------ program constants
\* constants.MaxNumberOfNodes
MaxNumberOfNodes == 145
\* constants.NdbNodeTypeAPIStartNodeId
NdbNodeTypeAPIStartNodeId == 129

\* ------------------------------------------------------- NdbCluster spec
\* NdbCluster.GetManagementNodeCount : one management node when the cluster
\* has no redundancy, two otherwise.
GetManagementNodeCount(spec) == IF spec.redundancyLevel = 1 THEN 1 ELSE 2

\* NdbCluster.GetMySQLServerNodeCount : 0 when spec.mysqld is nil
GetMySQLServerNodeCount(spec) == IF spec.mysqldPresent THEN spec.mysqlServerCount ELSE 0

\* sections of the config reserved for MySQL Servers and for free API slots
getNumOfSectionsRequiredForMySQLServers(spec) == GetMySQLServerNodeCount(spec)

getNumOfFreeAPISections(spec) == spec.freeAPISlots

\* NdbCluster.CalculateNewConfigHash : a digest of the spec slice that feeds
\* the config; two specs have the same hash iff that slice is the same.
CalculateNewConfigHash(spec) ==
    << spec.nodeCount, spec.redundancyLevel, GetMySQLServerNodeCount(spec),
       spec.freeAPISlots >>

\* HasValidSpec that allows one node less than the maximum
HasValidSpecErrorsStrictTotal(spec) ==
    LET total == GetManagementNodeCount(spec) + spec.nodeCount
                 + GetMySQLServerNodeCount(spec) + spec.freeAPISlots
    IN  (IF spec.nodeCount % spec.redundancyLevel # 0 THEN {"nodeCount"} ELSE {})
        \cup (IF total >= MaxNumberOfNodes THEN {"Total Nodes"} ELSE {})

\* HasValidSpec that checks the total number of nodes only
HasValidSpecErrorsTotalOnly(spec) ==
    LET total == GetManagementNodeCount(spec) + spec.nodeCount
                 + GetMySQLServerNodeCount(spec) + spec.freeAPISlots
    IN  IF total > MaxNumberOfNodes THEN {"Total Nodes"} ELSE {}

\* HasValidSpec : the error list, as the set of the rules that failed
\* (the secret-name and myCnf rules read fields this model does not carry).
HasValidSpecErrors(spec) ==
    LET total == GetManagementNodeCount(spec) + spec.nodeCount
                 + GetMySQLServerNodeCount(spec) + spec.freeAPISlots
    IN  (IF spec.nodeCount % spec.redundancyLevel # 0 THEN {"nodeCount"} ELSE {})
        \cup (IF total > MaxNumberOfNodes THEN {"Total Nodes"} ELSE {})

HasValidSpec(spec) == HasValidSpecErrors(spec) = {}

\* IsValidSpecUpdate that goes on to the other rules after the replica rule
IsValidSpecUpdateErrorsGoOn(old, new) ==
    (IF old.redundancyLevel = 1 THEN {"replica is 1"} ELSE {})
    \cup (IF old.nodeCount # new.nodeCount THEN {"nodeCount changed"} ELSE {})
    \cup (IF old.redundancyLevel # new.redundancyLevel
          THEN {"redundancyLevel changed"} ELSE {})
    \cup (IF old.mysqldPresent /\ new.mysqldPresent /\ old.rootHost # new.rootHost
          THEN {"rootHost changed"} ELSE {})
    \cup HasValidSpecErrors(new)

\* IsValidSpecUpdate without the rule of the node count
IsValidSpecUpdateErrorsAnyNodeCount(old, new) ==
    IF old.redundancyLevel = 1
    THEN {"replica is 1"}
    ELSE (IF old.redundancyLevel # new.redundancyLevel
          THEN {"redundancyLevel changed"} ELSE {})
         \cup (IF old.mysqldPresent /\ new.mysqldPresent /\ old.rootHost # new.rootHost
               THEN {"rootHost changed"} ELSE {})
         \cup HasValidSpecErrors(new)

\* IsValidSpecUpdate : the error list of an update from old to new
IsValidSpecUpdateErrors(old, new) ==
    IF old.redundancyLevel = 1
    THEN {"replica is 1"}
    ELSE (IF old.nodeCount # new.nodeCount THEN {"nodeCount changed"} ELSE {})
         \cup (IF old.redundancyLevel # new.redundancyLevel
               THEN {"redundancyLevel changed"} ELSE {})
         \cup (IF old.mysqldPresent /\ new.mysqldPresent /\ old.rootHost # new.rootHost
               THEN {"rootHost changed"} ELSE {})
         \cup HasValidSpecErrors(new)

IsValidSpecUpdate(old, new) == IsValidSpecUpdateErrors(old, new) = {}

\* ------------------------------------------------------- config generator
\* GetNodeIds that moves the counter before it hands out an id
GetNodeIdsCounterFirst(start, n) == [i \in 1..n |-> start + i]

\* GetNodeIds : n consecutive node ids from the start id
GetNodeIds(start, n) == [i \in 1..n |-> start + i - 1]

\* a previous config summary, or none
NoSummary == [present |-> FALSE]

GetConfigVersionBumpless(old) == IF ~old.present THEN 1 ELSE old.ConfigGeneration

\* GetConfigVersion : 1 for the first config, the previous version plus 1 after
GetConfigVersion(old) == IF ~old.present THEN 1 ELSE old.ConfigGeneration + 1

\* GetConfigString : the rendered config.ini, as its sections.  The template
\* asks for the management ids first, then for the data ids from the same
\* counter, then for the mysqld ids and the api ids from the api counter.
GetConfigString(spec, generation, old) ==
    LET nMgmd == GetManagementNodeCount(spec)
        nSql  == getNumOfSectionsRequiredForMySQLServers(spec)
    IN  [ exists                 |-> TRUE,
          ConfigGenerationNumber |-> GetConfigVersion(old),
          NoOfReplicas           |-> spec.redundancyLevel,
          mgmdIds   |-> GetNodeIds(1, nMgmd),
          ndbdIds   |-> GetNodeIds(1 + nMgmd, spec.nodeCount),
          mysqldIds |-> GetNodeIds(NdbNodeTypeAPIStartNodeId, nSql),
          apiIds    |-> GetNodeIds(NdbNodeTypeAPIStartNodeId + nSql,
                                   getNumOfFreeAPISections(spec)),
          ConfigHash           |-> CalculateNewConfigHash(spec),
          NdbClusterGeneration |-> generation ]

\* the config map before EnsureConfigMap created it
NoConfig == [ exists |-> FALSE ]

\* ConfigGenerationNumber of the config map, 0 before it exists
StoredGenerationOf(k) == IF k.cm.exists THEN k.cm.ConfigGenerationNumber ELSE 0

\* NewResourceContextFromConfiguration : the summary parsed back from the
\* stored config by walking its sections
NewResourceContextFromConfiguration(cfg) ==
    [ present              |-> TRUE,
      ConfigGeneration     |-> cfg.ConfigGenerationNumber,
      ConfigHash           |-> cfg.ConfigHash,
      RedundancyLevel      |-> cfg.NoOfReplicas,
      NumOfDataNodes       |-> Len(cfg.ndbdIds),
      NumOfMySQLServers    |-> Len(cfg.mysqldIds),
      NdbClusterGeneration |-> cfg.NdbClusterGeneration ]

\* ------------------------------------------------------------------ state
VARIABLES
    ndb,      \* the NdbCluster object: spec, metadata.generation, status
    k8s,      \* the resources the NdbCluster owns
    nodes,    \* the MySQL Cluster nodes as the management servers report them
    tick,     \* what the reconciliation tick that just ran did
    crashes,  \* unrequested node failures so far
    arg       \* the input of the validation and config-generator checks

vars == << ndb, k8s, nodes, tick, crashes, arg >>

\* the four services ensureServices creates, in its order
ServiceNames == << "mgmd", "mgmd-ext", "ndbd", "mysqld-ext" >>

NoStatefulSet == [ exists |-> FALSE, owned |-> FALSE, replicas |-> 0 ]

\* the MySQL Server StatefulSet: spec and status replicas, whether its last
\* update is rolled out, and its annotations (0 : annotation absent)
NoMySQLDStatefulSet ==
    [ exists |-> FALSE, owned |-> FALSE, specReplicas |-> 0, statusReplicas |-> 0,
      updateComplete |-> FALSE, configGeneration |-> 0,
      rootUserGeneration |-> 0, rootHost |-> "" ]

\* the secret holding the root password; owned : controlled by the NdbCluster
NoSecret == [ exists |-> FALSE, owned |-> FALSE ]

\* the report of a tick: its verdict, the requests it issued in order, and
\* the management sessions it left connected
NoTick == [ verdict |-> "none", ops |-> << >>, sessions |-> 0 ]

Op(name, kind, ids) == [ op |-> name, kind |-> kind, ids |-> ids ]

Log(w, o) == [w EXCEPT !.ops = Append(@, o)]

Ret(v, w) == [ res |-> v, w |-> w ]

\* syncResult.stopSync
stopSync(r) == r.res # "continue"

\* The remote calls of a tick are counted as they are made.  The failure
\* input << k, "error" >> makes the k-th call return an error;
\* << k, "other" >> makes it return its other outcome, where it has one.
Fails(w, f) == f = << w.calls + 1, "error" >>

Other(w, f) == f = << w.calls + 1, "other" >>

Called(w) == [w EXCEPT !.calls = @ + 1]

\* a call made that has another outcome
CalledWithOther(w) == [w EXCEPT !.calls = @ + 1, !.others = @ \cup {w.calls + 1}]

\* node ids by role, as the stored config assigns them
MgmdIds(spec) == 1..GetManagementNodeCount(spec)

DataIds(spec) ==
    (GetManagementNodeCount(spec) + 1)..(GetManagementNodeCount(spec) + spec.nodeCount)

\* ---------------------------------------------------- ensureAllResources
\* ensureService : (existed, error) and the world after it
ensureService(w, f, i) ==
    IF ServiceNames[i] \in w.k8s.services
    THEN [ err |-> FALSE, existed |-> TRUE, w |-> w ]
    ELSE IF Fails(w, f)
         THEN [ err |-> TRUE, existed |-> FALSE, w |-> w ]
         ELSE [ err |-> FALSE, existed |-> FALSE,
                w |-> Log([Called(w) EXCEPT !.k8s.services = @ \cup {ServiceNames[i]}],
                          Op("Create", "service", {i})) ]

RECURSIVE ensureServicesFrom(_, _, _, _)
ensureServicesFrom(w, f, i, retExisted) ==
    IF i > Len(ServiceNames)
    THEN [ err |-> FALSE, existed |-> retExisted, w |-> w ]
    ELSE LET r == ensureService(w, f, i)
         IN  IF r.err THEN [ err |-> TRUE, existed |-> FALSE, w |-> r.w ]
             ELSE ensureServicesFrom(r.w, f, i + 1, retExisted /\ r.existed)

ensureServices(w, f) == ensureServicesFrom(w, f, 1, TRUE)

ensurePodDisruptionBudget(w, f) ==
    IF w.k8s.pdb THEN [ err |-> FALSE, existed |-> TRUE, w |-> w ]
    ELSE IF Fails(w, f)
         THEN [ err |-> TRUE, existed |-> FALSE, w |-> w ]
         ELSE [ err |-> FALSE, existed |-> FALSE,
                w |-> Log([Called(w) EXCEPT !.k8s.pdb = TRUE], Op("Create", "pdb", {})) ]

\* ConfigMapControl.EnsureConfigMap : creates the config map from the spec,
\* with no previous summary, when it does not exist
EnsureConfigMap(w, f) ==
    IF w.k8s.cm.exists THEN [ err |-> FALSE, existed |-> TRUE, w |-> w ]
    ELSE IF Fails(w, f)
         THEN [ err |-> TRUE, existed |-> FALSE, w |-> w ]
         ELSE [ err |-> FALSE, existed |-> FALSE,
                w |-> Log([Called(w) EXCEPT !.k8s.cm =
                               GetConfigString(w.ndb.spec, w.ndb.generation, NoSummary)],
                          Op("Create", "configmap", {})) ]

\* the pods of a new StatefulSet start: its nodes exist and are not up yet
StartPods(nds, ids) ==
    [n \in DOMAIN nds |-> IF n \in ids THEN [nds[n] EXCEPT !.status = "down"] ELSE nds[n]]

\* ensureManagementServerStatefulSet without the ownership check
ensureManagementServerStatefulSetAdopts(w, f) ==
    IF w.k8s.mgmdSfset.exists
    THEN [ err |-> FALSE, existed |-> TRUE, w |-> w ]
    ELSE IF Fails(w, f)
         THEN [ err |-> TRUE, existed |-> FALSE, w |-> w ]
         ELSE [ err |-> FALSE, existed |-> FALSE,
                w |-> Log([Called(w) EXCEPT
                             !.k8s.mgmdSfset = [ exists |-> TRUE, owned |-> TRUE,
                                 replicas |-> GetManagementNodeCount(w.ndb.spec) ],
                             !.nodes = StartPods(@, MgmdIds(w.ndb.spec))],
                          Op("Create", "mgmd", {})) ]

\* StatefulSetControl.EnsureStatefulSet and the ownership check around it
ensureManagementServerStatefulSet(w, f) ==
    IF w.k8s.mgmdSfset.exists
    THEN IF ~w.k8s.mgmdSfset.owned
         THEN [ err |-> TRUE, existed |-> TRUE,
                w |-> Log(w, Op("Event", "ResourceExists", {})) ]
         ELSE [ err |-> FALSE, existed |-> TRUE, w |-> w ]
    ELSE IF Fails(w, f)
         THEN [ err |-> TRUE, existed |-> FALSE, w |-> w ]
         ELSE [ err |-> FALSE, existed |-> FALSE,
                w |-> Log([Called(w) EXCEPT
                             !.k8s.mgmdSfset = [ exists |-> TRUE, owned |-> TRUE,
                                 replicas |-> GetManagementNodeCount(w.ndb.spec) ],
                             !.nodes = StartPods(@, MgmdIds(w.ndb.spec))],
                          Op("Create", "mgmd", {})) ]

ensureDataNodeStatefulSet(w, f) ==
    IF w.k8s.ndbdSfset.exists
    THEN IF ~w.k8s.ndbdSfset.owned
         THEN [ err |-> TRUE, existed |-> TRUE,
                w |-> Log(w, Op("Event", "ResourceExists", {})) ]
         ELSE [ err |-> FALSE, existed |-> TRUE, w |-> w ]
    ELSE IF Fails(w, f)
         THEN [ err |-> TRUE, existed |-> FALSE, w |-> w ]
         ELSE [ err |-> FALSE, existed |-> FALSE,
                w |-> Log([Called(w) EXCEPT
                             !.k8s.ndbdSfset = [ exists |-> TRUE, owned |-> TRUE,
                                 replicas |-> w.rc.NumOfDataNodes ],
                             !.nodes = StartPods(@, DataIds(w.ndb.spec))],
                          Op("Create", "ndbd", {})) ]

\* validateMySQLServerDeployment : an error when the workload cannot be read
\* or is not controlled by the NdbCluster
validateMySQLServerDeployment(w, f) ==
    IF Fails(w, f)
    THEN [ err |-> TRUE, w |-> w ]
    ELSE IF w.k8s.mysqldSfset.exists /\ ~w.k8s.mysqldSfset.owned
         THEN [ err |-> TRUE, w |-> Log(Called(w), Op("Event", "ResourceExists", {})) ]
         ELSE [ err |-> FALSE, w |-> Called(w) ]

\* ensureAllResources that goes on with the sync after it created resources
ensureAllResourcesGoOn(w, f) ==
    LET s == ensureServices(w, f) IN
    IF s.err THEN Ret("error", s.w) ELSE
    LET p == ensurePodDisruptionBudget(s.w, f) IN
    IF p.err THEN Ret("error", p.w) ELSE
    LET c == EnsureConfigMap(p.w, f) IN
    IF c.err THEN Ret("error", c.w) ELSE
    IF Fails(c.w, f) THEN Ret("error", c.w) ELSE
    LET w1 == [Called(c.w) EXCEPT !.rc = NewResourceContextFromConfiguration(c.w.k8s.cm)]
        m  == ensureManagementServerStatefulSet(w1, f) IN
    IF m.err THEN Ret("error", m.w) ELSE
    LET d == ensureDataNodeStatefulSet(m.w, f) IN
    IF d.err THEN Ret("error", d.w) ELSE
    LET v == validateMySQLServerDeployment(d.w, f) IN
    IF v.err THEN Ret("error", v.w) ELSE Ret("continue", v.w)

\* ensureAllResources that goes on when the stored config does not parse
ensureAllResourcesIgnoresParseError(w, f) ==
    LET s == ensureServices(w, f) IN
    IF s.err THEN Ret("error", s.w) ELSE
    LET p == ensurePodDisruptionBudget(s.w, f) IN
    IF p.err THEN Ret("error", p.w) ELSE
    LET c == EnsureConfigMap(p.w, f) IN
    IF c.err THEN Ret("error", c.w) ELSE
    LET w1 == [Called(c.w) EXCEPT !.rc = NewResourceContextFromConfiguration(c.w.k8s.cm)]
        m  == ensureManagementServerStatefulSet(w1, f) IN
    IF m.err THEN Ret("error", m.w) ELSE
    LET d == ensureDataNodeStatefulSet(m.w, f) IN
    IF d.err THEN Ret("error", d.w) ELSE
    LET v == validateMySQLServerDeployment(d.w, f) IN
    IF v.err THEN Ret("error", v.w) ELSE
    IF s.existed /\ p.existed /\ c.existed /\ m.existed /\ d.existed
    THEN Ret("continue", v.w)
    ELSE Ret("requeue5", v.w)

\* SyncContext.ensureAllResources
ensureAllResources(w, f) ==
    LET s == ensureServices(w, f) IN
    IF s.err THEN Ret("error", s.w) ELSE
    LET p == ensurePodDisruptionBudget(s.w, f) IN
    IF p.err THEN Ret("error", p.w) ELSE
    LET c == EnsureConfigMap(p.w, f) IN
    IF c.err THEN Ret("error", c.w) ELSE
    \* the stored config is parsed into the summary of this tick
    IF Fails(c.w, f) THEN Ret("error", c.w) ELSE
    LET w1 == [Called(c.w) EXCEPT !.rc = NewResourceContextFromConfiguration(c.w.k8s.cm)]
        m  == ensureManagementServerStatefulSet(w1, f) IN
    IF m.err THEN Ret("error", m.w) ELSE
    LET d == ensureDataNodeStatefulSet(m.w, f) IN
    IF d.err THEN Ret("error", d.w) ELSE
    LET v == validateMySQLServerDeployment(d.w, f) IN
    IF v.err THEN Ret("error", v.w) ELSE
    IF s.existed /\ p.existed /\ c.existed /\ m.existed /\ d.existed
    THEN Ret("continue", v.w)
    ELSE Ret("requeue5", v.w)

\* ------------------------------------------- pods and cluster status
\* a node whose process runs: up, or up with a stop request accepted
Running(nd) == nd.status \in {"up", "stopping"}

\* checkPodsReadiness that lets the sync continue whatever the pods report
checkPodsReadinessContinues(w, f) ==
    IF Fails(w, f) THEN Ret("error", w)
    ELSE Ret("continue", Called(w))

\* checkPodsReadiness : requeue unless every listed pod is Ready.  The pods
\* of the management and data nodes are Ready while their node runs; the
\* MySQL Server pods are observed (w.sqlPodsReady) while an update rolls.
checkPodsReadiness(w, f) ==
    IF Fails(w, f) THEN Ret("error", w)
    ELSE IF \E n \in DOMAIN w.nodes : w.nodes[n].status \in {"down", "stopped"}
         THEN Ret("requeue5", Called(w))
    ELSE IF w.k8s.mysqldSfset.exists /\ ~w.k8s.mysqldSfset.updateComplete
            /\ ~w.sqlPodsReady
         THEN Ret("requeue5", Called(w))
    ELSE Ret("continue", Called(w))

\* connectToManagementServer succeeded: one more session is connected
Connected(w) == [Called(w) EXCEPT !.sessions = @ + 1]

\* MgmClient.Disconnect
Disconnect(w) == [w EXCEPT !.sessions = @ - 1]

\* retrieveClusterStatus : the session is disconnected by defer
retrieveClusterStatus(w, f) ==
    IF Fails(w, f) THEN Ret("error", w)
    ELSE LET c == Connected(w) IN
         IF Fails(c, f) THEN Ret("error", Disconnect(c))
         ELSE Ret("continue", Disconnect(Called(c)))

\* ClusterStatus.IsHealthy : every node of the cluster is connected
IsHealthy(nds) == \A n \in DOMAIN nds : Running(nds[n])

\* ClusterStatus.GetNodesGroupedByNodegroup : the data node ids, sorted, in
\* node groups of redundancyLevel consecutive ids
GetNodesGroupedByNodegroup(w) ==
    LET rl    == w.rc.RedundancyLevel
        first == GetManagementNodeCount(w.ndb.spec) + 1
    IN  [g \in 1..(w.rc.NumOfDataNodes \div rl) |->
            [i \in 1..rl |-> first + (g - 1) * rl + (i - 1)]]

\* the node groups of the cluster: a data node is in the group of its id,
\* groups being runs of noOfReplicas consecutive ids after the management ids
Nodegroups(spec) == 1..(spec.nodeCount \div spec.redundancyLevel)

NodegroupOf(n, spec) ==
    ((n - GetManagementNodeCount(spec) - 1) \div spec.redundancyLevel) + 1

\* the node ids a cluster status shows in node group g: the data nodes of
\* the group that are connected
ConnectedNodesOfNodegroup(nds, spec, g) ==
    { n \in DataIds(spec) : NodegroupOf(n, spec) = g /\ Running(nds[n]) }

\* MgmClient.StopNodes accepted: the nodes go on running until they shut down
StopNodes(nds, ids) ==
    [n \in DOMAIN nds |-> IF n \in ids THEN [nds[n] EXCEPT !.status = "stopping"] ELSE nds[n]]

\* ------------------------------------------------ management-server phase
RECURSIVE mgmdLoopRestartAll(_, _, _)
mgmdLoopRestartAll(w, f, nodeID) ==
    IF nodeID > GetManagementNodeCount(w.ndb.spec) THEN Ret("continue", w)
    ELSE IF Fails(w, f) THEN Ret("error", w)
    ELSE LET c == Connected(w) IN
         IF Fails(c, f) THEN Ret("error", c)
         ELSE IF c.nodes[nodeID].gen = c.rc.ConfigGeneration
              THEN mgmdLoopRestartAll(Disconnect(Called(c)), f, nodeID + 1)
         ELSE IF Fails(Called(c), f)
              THEN Ret("requeue5",
                       Disconnect(Log(Called(c), Op("StopNodesFailed", "mgmd", {nodeID}))))
         ELSE mgmdLoopRestartAll(
                  Disconnect(Log([Called(Called(c)) EXCEPT !.nodes = StopNodes(@, {nodeID})],
                                 Op("StopNodes", "mgmd", {nodeID}))), f, nodeID + 1)

\* the loop of ensureManagementServerConfigVersion from nodeID on: connect,
\* GetConfigVersion, and StopNodes when the version is not the wanted one
RECURSIVE mgmdLoop(_, _, _)
mgmdLoop(w, f, nodeID) ==
    IF nodeID > GetManagementNodeCount(w.ndb.spec) THEN Ret("continue", w)
    ELSE IF Fails(w, f) THEN Ret("error", w)
    ELSE LET c == Connected(w) IN
         IF Fails(c, f) THEN Ret("error", c)
         ELSE IF c.nodes[nodeID].gen = c.rc.ConfigGeneration
              THEN mgmdLoop(Disconnect(Called(c)), f, nodeID + 1)
         ELSE IF Fails(Called(c), f)
              THEN Ret("requeue5",
                       Disconnect(Log(Called(c), Op("StopNodesFailed", "mgmd", {nodeID}))))
         ELSE Ret("requeue5",
                  Disconnect(Log([Called(Called(c)) EXCEPT !.nodes = StopNodes(@, {nodeID})],
                                 Op("StopNodes", "mgmd", {nodeID}))))

ensureManagementServerConfigVersion(w, f) == mgmdLoop(w, f, 1)

\* nodesWithOldConfig that takes a candidate whose version cannot be read
\* for outdated and goes on
RECURSIVE nodesWithOldConfigSkipsErrors(_, _, _, _, _)
nodesWithOldConfigSkipsErrors(w, f, candidateNodeIds, k, acc) ==
    IF k > Len(candidateNodeIds) THEN [ err |-> FALSE, ids |-> acc, w |-> w ]
    ELSE nodesWithOldConfigSkipsErrors(Called(w), f, candidateNodeIds, k + 1,
             IF Fails(w, f) \/ w.nodes[candidateNodeIds[k]].gen # w.rc.ConfigGeneration
             THEN acc \cup {candidateNodeIds[k]} ELSE acc)

\* ------------------------------------------------------- data-node phase
\* the candidates of one iteration, checked in order: the error of the first
\* failing GetConfigVersion, or the candidates whose version is not wanted
RECURSIVE nodesWithOldConfig(_, _, _, _, _)
nodesWithOldConfig(w, f, candidateNodeIds, k, acc) ==
    IF k > Len(candidateNodeIds) THEN [ err |-> FALSE, ids |-> acc, w |-> w ]
    ELSE IF Fails(w, f) THEN [ err |-> TRUE, ids |-> acc, w |-> w ]
    ELSE nodesWithOldConfig(Called(w), f, candidateNodeIds, k + 1,
             IF w.nodes[candidateNodeIds[k]].gen # w.rc.ConfigGeneration
             THEN acc \cup {candidateNodeIds[k]} ELSE acc)

RECURSIVE dataLoopNoWait(_, _, _)
dataLoopNoWait(w, f, i) ==
    IF i > w.rc.RedundancyLevel THEN Ret("continue", w)
    ELSE LET groups == GetNodesGroupedByNodegroup(w)
             candidateNodeIds == [g \in 1..Len(groups) |-> groups[g][i]]
             old == nodesWithOldConfig(w, f, candidateNodeIds, 1, {})
         IN  IF old.err THEN Ret("error", old.w)
             ELSE IF old.ids # {}
                  THEN IF Fails(old.w, f) THEN Ret("error", old.w)
                       ELSE dataLoopNoWait(
                                Log([Called(old.w) EXCEPT !.nodes = StopNodes(@, old.ids)],
                                    Op("StopNodes", "ndbd", old.ids)), f, i + 1)
             ELSE dataLoopNoWait(old.w, f, i + 1)

\* the loop of ensureDataNodeConfigVersion over the i-th node of every group
RECURSIVE dataLoop(_, _, _)
dataLoop(w, f, i) ==
    IF i > w.rc.RedundancyLevel THEN Ret("continue", w)
    ELSE LET groups == GetNodesGroupedByNodegroup(w)
             candidateNodeIds == [g \in 1..Len(groups) |-> groups[g][i]]
             old == nodesWithOldConfig(w, f, candidateNodeIds, 1, {})
         IN  IF old.err THEN Ret("error", old.w)
             ELSE IF old.ids # {}
                  THEN IF Fails(old.w, f) THEN Ret("error", old.w)
                       ELSE Ret("requeue5",
                                Log([Called(old.w) EXCEPT !.nodes = StopNodes(@, old.ids)],
                                    Op("StopNodes", "ndbd", old.ids)))
             ELSE dataLoop(old.w, f, i + 1)

\* ensureDataNodeConfigVersion : one session, disconnected by defer
ensureDataNodeConfigVersion(w, f) ==
    IF Fails(w, f) THEN Ret("error", w)
    ELSE LET r == dataLoop(Connected(w), f, 1)
         IN  Ret(r.res, Disconnect(r.w))

\* ------------------------------------------ MySQL Server StatefulSet
\* ndbNodeStatefulSetImpl.patchStatefulSet : the patch is applied and the
\* tick finishes; reconciliation continues once the update is rolled out
patchStatefulSet(w, f, updated) ==
    IF Fails(w, f) THEN Ret("error", w)
    ELSE Ret("finish", Log([Called(w) EXCEPT !.k8s.mysqldSfset = updated],
                           Op("Patch", "mysqld", {updated.specReplicas})))

\* MySQLRootPasswordSecretInterface.IsControlledBy : the secret is read and
\* has the NdbCluster as its controller (the other outcome of the read: a
\* stale cache still shows a secret that is gone)
IsControlledBy(w, f) ==
    \/ w.k8s.secret.exists /\ w.k8s.secret.owned
    \/ ~w.k8s.secret.exists /\ Other(w, f)

\* the deletion path that goes on to the StatefulSet when the delete of the
\* secret fails
deleteMySQLServersGoOn(w, f) ==
    IF Fails(w, f) THEN Ret("error", w) ELSE
    LET w1 == Log([Called(w) EXCEPT !.k8s.rootUser = FALSE], Op("Delete", "rootuser", {}))
        controlled == IsControlledBy(w1, f)
        w2 == IF w1.k8s.secret.exists THEN Called(w1) ELSE CalledWithOther(w1)
        w3 == IF ~controlled THEN w2
              ELSE IF Fails(w2, f) THEN Called(w2)
              ELSE IF w2.k8s.secret.exists
                   THEN Log([Called(w2) EXCEPT !.k8s.secret = NoSecret],
                            Op("Delete", "secret", {}))
              ELSE Called(w2)
    IN  IF Fails(w3, f) THEN Ret("error", w3)
        ELSE Ret("finish", Log([Called(w3) EXCEPT !.k8s.mysqldSfset = NoMySQLDStatefulSet],
                               Op("Delete", "mysqld", {})))

\* the deletion path of HandleScaleDown (scale down to 0 servers): the root
\* user, then the secret when the operator owns it, then the StatefulSet
deleteMySQLServers(w, f) ==
    IF Fails(w, f) THEN Ret("error", w) ELSE
    LET w1 == Log([Called(w) EXCEPT !.k8s.rootUser = FALSE], Op("Delete", "rootuser", {}))
        controlled == IsControlledBy(w1, f)
        w2 == IF w1.k8s.secret.exists THEN Called(w1) ELSE CalledWithOther(w1)
        \* a NotFound from the delete is ignored
        w3 == IF ~controlled THEN w2
              ELSE IF w2.k8s.secret.exists
                   THEN Log([Called(w2) EXCEPT !.k8s.secret = NoSecret],
                            Op("Delete", "secret", {}))
              ELSE Called(w2)
    IN  IF controlled /\ Fails(w2, f) THEN Ret("error", w2)
        ELSE IF Fails(w3, f) THEN Ret("error", w3)
        ELSE Ret("finish", Log([Called(w3) EXCEPT !.k8s.mysqldSfset = NoMySQLDStatefulSet],
                               Op("Delete", "mysqld", {})))

\* HandleScaleDown that goes on with the sync after a scale down
HandleScaleDownAndGoOn(w, f) ==
    LET mysqldSfset     == w.k8s.mysqldSfset
        mysqldNodeCount == w.rc.NumOfMySQLServers
    IN  IF ~mysqldSfset.exists THEN Ret("continue", w)
        ELSE IF ~mysqldSfset.updateComplete THEN Ret("finish", w)
        ELSE IF mysqldSfset.statusReplicas <= mysqldNodeCount THEN Ret("continue", w)
        ELSE LET r == IF mysqldNodeCount = 0 THEN deleteMySQLServers(w, f)
                      ELSE patchStatefulSet(w, f,
                               [mysqldSfset EXCEPT !.specReplicas = mysqldNodeCount,
                                                   !.updateComplete = FALSE])
             IN  IF r.res = "finish" THEN Ret("continue", r.w) ELSE r

\* HandleScaleDown that scales down to 0 servers by patching the replicas
HandleScaleDownPatchToZero(w, f) ==
    LET mysqldSfset     == w.k8s.mysqldSfset
        mysqldNodeCount == w.rc.NumOfMySQLServers
    IN  IF ~mysqldSfset.exists THEN Ret("continue", w)
        ELSE IF ~mysqldSfset.updateComplete THEN Ret("finish", w)
        ELSE IF mysqldSfset.statusReplicas <= mysqldNodeCount THEN Ret("continue", w)
        ELSE patchStatefulSet(w, f,
                 [mysqldSfset EXCEPT !.specReplicas = mysqldNodeCount,
                                     !.updateComplete = FALSE])

\* HandleScaleDown that does not wait for the previous update to roll out
HandleScaleDownNoWait(w, f) ==
    LET mysqldSfset     == w.k8s.mysqldSfset
        mysqldNodeCount == w.rc.NumOfMySQLServers
    IN  IF ~mysqldSfset.exists THEN Ret("continue", w)
        ELSE IF mysqldSfset.statusReplicas <= mysqldNodeCount THEN Ret("continue", w)
        ELSE IF mysqldNodeCount = 0 THEN deleteMySQLServers(w, f)
        ELSE patchStatefulSet(w, f,
                 [mysqldSfset EXCEPT !.specReplicas = mysqldNodeCount,
                                     !.updateComplete = FALSE])

\* MySQLDStatefulSetController.HandleScaleDown
HandleScaleDown(w, f) ==
    LET mysqldSfset     == w.k8s.mysqldSfset
        mysqldNodeCount == w.rc.NumOfMySQLServers
    IN  IF ~mysqldSfset.exists THEN Ret("continue", w)
        ELSE IF ~mysqldSfset.updateComplete THEN Ret("finish", w)
        ELSE IF mysqldSfset.statusReplicas <= mysqldNodeCount THEN Ret("continue", w)
        ELSE IF mysqldNodeCount = 0 THEN deleteMySQLServers(w, f)
        ELSE patchStatefulSet(w, f,
                 [mysqldSfset EXCEPT !.specReplicas = mysqldNodeCount,
                                     !.updateComplete = FALSE])

\* MySQLRootPasswordSecretInterface.Ensure : a user-supplied secret is used
\* as it is; otherwise the operator creates a secret it owns
EnsureSecret(w, f) ==
    IF Fails(w, f) THEN [ err |-> TRUE, w |-> w ]
    ELSE IF w.k8s.secret.exists THEN [ err |-> FALSE, w |-> Called(w) ]
    ELSE [ err |-> FALSE,
           w |-> Log([Called(w) EXCEPT !.k8s.secret = [ exists |-> TRUE, owned |-> TRUE ]],
                     Op("Create", "secret", {})) ]

\* MySQLDStatefulSetController.ReconcileStatefulSet
ReconcileStatefulSet(w, f) ==
    LET mysqldSfset == w.k8s.mysqldSfset
        cs          == w.rc
    IN  IF ~mysqldSfset.exists
        THEN IF cs.NumOfMySQLServers = 0 THEN Ret("continue", w)
             ELSE LET e == EnsureSecret(w, f) IN
                  IF e.err THEN Ret("error", e.w)
                  ELSE IF Fails(e.w, f) THEN Ret("error", e.w)
                  ELSE Ret("finish",
                           Log([Called(e.w) EXCEPT !.k8s.mysqldSfset =
                                  [ exists |-> TRUE, owned |-> TRUE,
                                    specReplicas |-> cs.NumOfMySQLServers,
                                    statusReplicas |-> 0, updateComplete |-> FALSE,
                                    configGeneration |-> cs.NdbClusterGeneration,
                                    rootUserGeneration |-> 0, rootHost |-> "" ]],
                               Op("Create", "mysqld", {cs.NumOfMySQLServers})))
        ELSE IF mysqldSfset.configGeneration = cs.NdbClusterGeneration
             THEN Ret("continue", w)
        \* the governing service is patched first
        ELSE IF Fails(w, f) THEN Ret("error", w)
        ELSE patchStatefulSet(Log(Called(w), Op("Patch", "service", {})), f,
                 [mysqldSfset EXCEPT !.specReplicas = cs.NumOfMySQLServers,
                                     !.configGeneration = cs.NdbClusterGeneration,
                                     !.updateComplete = FALSE])

\* MySQLDStatefulSetController.reconcileRootUser
reconcileRootUser(w, f) ==
    LET mysqldSfset  == w.k8s.mysqldSfset
        recentNdbGen == w.rc.NdbClusterGeneration
        newRootHost  == w.ndb.spec.rootHost
        marked == [mysqldSfset EXCEPT !.rootHost = newRootHost,
                                      !.rootUserGeneration = recentNdbGen]
    IN  IF ~mysqldSfset.exists THEN Ret("continue", w)
        ELSE IF mysqldSfset.rootUserGeneration = recentNdbGen THEN Ret("continue", w)
        ELSE IF mysqldSfset.rootHost = ""
             \* ExtractPassword, then CreateRootUserIfNotExist
             THEN IF Fails(w, f) \/ Fails(Called(w), f)
                  THEN Ret("error", w)
                  ELSE patchStatefulSet(
                           Log([Called(Called(w)) EXCEPT !.k8s.rootUser = TRUE],
                               Op("Create", "rootuser", {})), f, marked)
        ELSE IF newRootHost # mysqldSfset.rootHost
             THEN IF Fails(w, f) THEN Ret("error", w)
                  ELSE patchStatefulSet(Log(Called(w), Op("Update", "rootuser", {})),
                                        f, marked)
        ELSE patchStatefulSet(w, f, marked)

\* ---------------------------------------------------- status of the tick
\* the UpdateStatus retry loop.  An error that is not a conflict ends the
\* loop with that error.  Its other outcome is a conflict: the loop
\* re-reads the object and sends the object it re-read on the next attempt.
UpdateStatus(w, f, processedGeneration) ==
    IF Fails(w, f)
    THEN [ err |-> TRUE, w |-> Log(w, Op("UpdateStatus", "error", {processedGeneration})) ]
    ELSE IF Other(w, f)
         THEN [ err |-> FALSE,
                w |-> Log(Log(CalledWithOther(w),
                              Op("UpdateStatus", "status", {w.ndb.processedGeneration})),
                          Op("Event", "SyncSuccess", {})) ]
    ELSE [ err |-> FALSE,
           w |-> Log(Log([CalledWithOther(w) EXCEPT
                             !.ndb.processedGeneration = processedGeneration],
                         Op("UpdateStatus", "status", {processedGeneration})),
                     Op("Event", "SyncSuccess", {})) ]

\* updateNdbClusterStatus that takes every config change for pending
updateNdbClusterStatusAsPending(w, f, hasPendingConfigChanges) ==
    IF w.ndb.processedGeneration + 1 = w.ndb.generation
    THEN [ err |-> FALSE, w |-> w ]
    ELSE UpdateStatus(w, f, w.ndb.generation - 1)

\* updateNdbClusterStatus that writes the status in every tick
updateNdbClusterStatusAlways(w, f, hasPendingConfigChanges) ==
    UpdateStatus(w, f, IF hasPendingConfigChanges THEN w.ndb.generation - 1
                       ELSE w.ndb.generation)

\* SyncContext.updateNdbClusterStatus
updateNdbClusterStatus(w, f, hasPendingConfigChanges) ==
    IF hasPendingConfigChanges
    THEN IF w.ndb.processedGeneration + 1 = w.ndb.generation
         THEN [ err |-> FALSE, w |-> w ]
         ELSE UpdateStatus(w, f, w.ndb.generation - 1)
    ELSE IF w.ndb.processedGeneration = w.ndb.generation
         THEN [ err |-> FALSE, w |-> Log(w, Op("Event", "InSync", {})) ]
         ELSE UpdateStatus(w, f, w.ndb.generation)

\* ConfigMapControl.PatchConfigMap : the config regenerated from the spec
\* and the summary of the stored config
PatchConfigMap(w, f) ==
    IF Fails(w, f) THEN [ err |-> TRUE, w |-> w ]
    ELSE [ err |-> FALSE,
           w |-> Log([Called(w) EXCEPT !.k8s.cm =
                          GetConfigString(w.ndb.spec, w.ndb.generation, w.rc)],
                     Op("Patch", "configmap", {})) ]

\* the end of sync that finishes after it patched the config map
diffAndPersistSpecFinish(w, f) ==
    LET hasPendingConfigChanges == w.rc.ConfigHash # CalculateNewConfigHash(w.ndb.spec)
        p == IF hasPendingConfigChanges THEN PatchConfigMap(w, f)
             ELSE [ err |-> FALSE, w |-> w ]
    IN  IF p.err THEN Ret("error", p.w) ELSE
        LET u == updateNdbClusterStatus(p.w, f, hasPendingConfigChanges) IN
        IF u.err THEN Ret("error", u.w) ELSE Ret("finish", u.w)

\* the end of sync: patch the config map when the spec has another hash
\* than the stored config, then update the status
diffAndPersistSpec(w, f) ==
    LET hasPendingConfigChanges == w.rc.ConfigHash # CalculateNewConfigHash(w.ndb.spec)
        p == IF hasPendingConfigChanges THEN PatchConfigMap(w, f)
             ELSE [ err |-> FALSE, w |-> w ]
    IN  IF p.err THEN Ret("error", p.w) ELSE
        LET u == updateNdbClusterStatus(p.w, f, hasPendingConfigChanges) IN
        IF u.err THEN Ret("error", u.w)
        ELSE IF hasPendingConfigChanges THEN Ret("requeue0", u.w)
        ELSE Ret("finish", u.w)

\* the data node StatefulSet is patched when its replicas differ from the
\* number of data nodes of the stored config
reconcileDataNodeReplicas(w, f) ==
    IF w.rc.NumOfDataNodes # w.k8s.ndbdSfset.replicas
    THEN IF Fails(w, f) THEN Ret("error", w)
         ELSE Ret("continue",
                  Log([Called(w) EXCEPT !.k8s.ndbdSfset.replicas = w.rc.NumOfDataNodes],
                      Op("Patch", "ndbd", {})))
    ELSE Ret("continue", w)

\* retrieveClusterStatus and the IsHealthy check of sync
clusterHealthy(w, f) ==
    LET r == retrieveClusterStatus(w, f) IN
    IF stopSync(r) THEN r
    ELSE IF ~IsHealthy(r.w.nodes) THEN Ret("requeue5", r.w)
    ELSE r

\* the phases of sync that verify the cluster against the stored config
rolloutPhases(w, f) ==
    LET s == HandleScaleDown(w, f) IN
    IF stopSync(s) THEN s ELSE
    LET m == ensureManagementServerConfigVersion(s.w, f) IN
    IF stopSync(m) THEN m ELSE
    ensureDataNodeConfigVersion(m.w, f)

\* the steps of sync after the rollout phases
reconcileAndPersist(w, f) ==
    LET d == reconcileDataNodeReplicas(w, f) IN
    IF stopSync(d) THEN d ELSE
    LET s == ReconcileStatefulSet(d.w, f) IN
    IF stopSync(s) THEN s ELSE
    LET u == reconcileRootUser(s.w, f) IN
    IF stopSync(u) THEN u ELSE
    diffAndPersistSpec(u.w, f)

\* sync that persists the spec without the rollout phases
syncNoRollout(w, f) ==
    LET e == ensureAllResources(w, f) IN
    IF stopSync(e) THEN e ELSE
    LET p == checkPodsReadiness(e.w, f) IN
    IF stopSync(p) THEN p ELSE
    LET h == clusterHealthy(p.w, f) IN
    IF stopSync(h) THEN h ELSE
    reconcileAndPersist(h.w, f)

\* sync that goes on to the rollout phases without the readiness and
\* health checks
syncUnchecked(w, f) ==
    LET e == ensureAllResources(w, f) IN
    IF stopSync(e) THEN e ELSE
    LET r == rolloutPhases(e.w, f) IN
    IF stopSync(r) THEN r ELSE
    reconcileAndPersist(r.w, f)

\* SyncContext.sync
sync(w, f) ==
    LET e == ensureAllResources(w, f) IN
    IF stopSync(e) THEN e ELSE
    LET p == checkPodsReadiness(e.w, f) IN
    IF stopSync(p) THEN p ELSE
    LET h == clusterHealthy(p.w, f) IN
    IF stopSync(h) THEN h ELSE
    LET r == rolloutPhases(h.w, f) IN
    IF stopSync(r) THEN r ELSE
    reconcileAndPersist(r.w, f)

\* ----------------------------------------------------------------- inputs
NoFailure == << 0, "none" >>

\* the failure inputs that change a tick: an error of one of the calls the
\* tick makes, or the other outcome of one that has another outcome
Failures(r0) ==
    {NoFailure} \cup ((1..r0.w.calls) \X {"error"}) \cup (r0.w.others \X {"other"})

\* data node count and redundancy level of the clusters explored
Topologies == { << 1, 1 >>, << 4, 2 >> }

\* the NdbCluster specs of the given topologies that a cluster is created from
SpecsOf(topologies) ==
    { sp \in [ nodeCount : {t[1] : t \in topologies},
               redundancyLevel : {t[2] : t \in topologies},
               mysqldPresent : {TRUE},
               mysqlServerCount : {MaxMySQLServers},
               freeAPISlots : {1},
               rootHost : {"%"},
               customSecret : BOOLEAN ] :
        /\ << sp.nodeCount, sp.redundancyLevel >> \in topologies
        /\ HasValidSpec(sp) }

InitialSpecs == SpecsOf(Topologies)

NoArg == [ phase |-> "none" ]

\* ------------------------------------------------------------------ Init
\* a new NdbCluster object of spec sp: nothing of it exists yet
Created(sp) ==
    /\ ndb = [ spec |-> sp, generation |-> 1, processedGeneration |-> 0 ]
    /\ k8s = [ services |-> {}, pdb |-> FALSE, cm |-> NoConfig,
               mgmdSfset |-> NoStatefulSet, ndbdSfset |-> NoStatefulSet,
               mysqldSfset |-> NoMySQLDStatefulSet,
               secret |-> [ exists |-> sp.customSecret, owned |-> FALSE ],
               rootUser |-> FALSE ]
    /\ nodes = [ n \in MgmdIds(sp) \cup DataIds(sp) |->
                   [ status |-> "absent", gen |-> 0 ] ]
    /\ tick = NoTick
    /\ crashes = 0
    /\ arg = NoArg

Init == \E sp \in InitialSpecs : Created(sp)

\* --------------------------------------------------------------- actions
\* the world a tick starts from
TickContext(sqlPodsReady) ==
    [ ndb |-> ndb, k8s |-> k8s, nodes |-> nodes, rc |-> NoSummary,
      ops |-> << >>, sessions |-> 0, calls |-> 0, others |-> {},
      sqlPodsReady |-> sqlPodsReady ]

\* what the pod list can show of the MySQL Server pods
PodObservations ==
    IF k8s.mysqldSfset.exists /\ ~k8s.mysqldSfset.updateComplete
    THEN BOOLEAN ELSE {TRUE}

\* the objects and the report a tick leaves behind
TickObjects(r) ==
    /\ ndb' = r.w.ndb
    /\ k8s' = r.w.k8s
    /\ nodes' = r.w.nodes
    /\ tick' = [ verdict |-> r.res, ops |-> r.w.ops, sessions |-> r.w.sessions ]

TickReturns(r) ==
    /\ TickObjects(r)
    /\ UNCHANGED << crashes, arg >>

\* one reconciliation tick: sync run to completion on the current objects
Tick ==
    \E sqlPodsReady \in PodObservations :
        LET w0 == TickContext(sqlPodsReady)
            r0 == sync(w0, NoFailure)
        IN  \E f \in Failures(r0) :
                TickReturns(IF f = NoFailure THEN r0 ELSE sync(w0, f))

\* a tick all of whose remote calls succeed and that sees the pods ready
TickSucceeds == TickReturns(sync(TickContext(TRUE), NoFailure))

\* the user updates the spec; the webhook admits what IsValidSpecUpdate accepts
SpecUpdate ==
    /\ ndb.generation < MaxGeneration
    /\ \E n \in 0..MaxMySQLServers :
          LET new == [ndb.spec EXCEPT !.mysqlServerCount = n] IN
          /\ new # ndb.spec
          /\ IsValidSpecUpdate(ndb.spec, new)
          /\ ndb' = [ndb EXCEPT !.spec = new, !.generation = @ + 1]
    /\ tick' = NoTick
    /\ UNCHANGED << k8s, nodes, crashes, arg >>

\* a node asked to stop shuts down
NodeShutsDown ==
    \E n \in DOMAIN nodes :
        /\ nodes[n].status = "stopping"
        /\ nodes' = [nodes EXCEPT ![n].status = "stopped"]
        /\ tick' = NoTick
        /\ UNCHANGED << ndb, k8s, crashes, arg >>

\* a node fails without having been asked to stop
NodeCrashes ==
    \E n \in DOMAIN nodes :
        /\ crashes < MaxCrashes
        /\ nodes[n].status = "up"
        /\ nodes' = [nodes EXCEPT ![n].status = "down"]
        /\ crashes' = crashes + 1
        /\ tick' = NoTick
        /\ UNCHANGED << ndb, k8s, arg >>

\* the StatefulSet controller restarts the pod of a node that is down; the
\* node starts with the config of the config map
NodeRestarts ==
    \E n \in DOMAIN nodes :
        /\ nodes[n].status \in {"down", "stopped"}
        /\ nodes' = [nodes EXCEPT ![n] = [ status |-> "up",
                                           gen |-> k8s.cm.ConfigGenerationNumber ]]
        /\ tick' = NoTick
        /\ UNCHANGED << ndb, k8s, crashes, arg >>

\* the update of the MySQL Server StatefulSet is rolled out
MySQLDUpdateCompletes ==
    /\ k8s.mysqldSfset.exists
    /\ ~k8s.mysqldSfset.updateComplete
    /\ k8s' = [k8s EXCEPT !.mysqldSfset.statusReplicas = k8s.mysqldSfset.specReplicas,
                          !.mysqldSfset.updateComplete = TRUE]
    /\ tick' = NoTick
    /\ UNCHANGED << ndb, nodes, crashes, arg >>

Next ==
    \/ Tick
    \/ SpecUpdate
    \/ NodeShutsDown
    \/ NodeCrashes
    \/ NodeRestarts
    \/ MySQLDUpdateCompletes

Spec == Init /\ [][Next]_vars

\* ------------------------------------- validation and config generator
\* data node counts of the specs handed to the validation
NodeCounts == { 1, 2, 3, 4, 126, 127, 128, 144 }

CandidateSpecs ==
    [ nodeCount : NodeCounts,
      redundancyLevel : {1, 2},
      mysqldPresent : BOOLEAN,
      mysqlServerCount : 0..MaxMySQLServers,
      freeAPISlots : {0, 1, 2},
      rootHost : {"%"},
      customSecret : {FALSE} ]

\* a spec is submitted; no cluster is running
Submitted(sp) ==
    /\ arg = [ phase |-> "submitted", spec |-> sp ]
    /\ ndb = [ spec |-> sp, generation |-> 1, processedGeneration |-> 0 ]
    /\ k8s = [ cm |-> NoConfig ]
    /\ nodes = << >>
    /\ tick = NoTick
    /\ crashes = 0

GeneratorInit == \E sp \in CandidateSpecs : Submitted(sp)

\* the admission webhook validates the submitted spec
Validate ==
    /\ arg.phase = "submitted"
    /\ arg' = [ phase |-> "validated", spec |-> arg.spec,
                valid |-> HasValidSpec(arg.spec) ]
    /\ UNCHANGED << ndb, k8s, nodes, tick, crashes >>

\* the first config of an accepted spec is generated
Generate ==
    /\ arg.phase = "validated"
    /\ arg.valid
    /\ arg' = [ phase |-> "generated", spec |-> arg.spec,
                config |-> GetConfigString(arg.spec, ndb.generation, NoSummary) ]
    /\ UNCHANGED << ndb, k8s, nodes, tick, crashes >>

GeneratorNext == Validate \/ Generate

GeneratorSpec == GeneratorInit /\ [][GeneratorNext]_vars

\* ------------------------------------------- hostnames of the config
\* what net.LookupCNAME("kubernetes.default.svc") returns: an error, or the
\* canonical name, taken as its labels with the empty root label last
LookupFailed == << >>

ClusterDomains == { << "cluster", "local" >>, << "k8s", "example", "com" >> }

LookupOutcomes ==
    {LookupFailed} \cup { << "kubernetes", "default", "svc" >> \o d \o << "" >> : d \in ClusterDomains }

\* ndb.Namespace
Namespace == "default"

\* GetHostnameSuffix : the namespace when the lookup fails, else the
\* namespace and the canonical name without "kubernetes.default" and
\* without the trailing dot
GetHostnameSuffix(k8sCname) ==
    IF k8sCname = LookupFailed THEN << Namespace >>
    ELSE << Namespace >> \o SubSeq(k8sCname, 3, Len(k8sCname) - 1)

\* the Hostname lines of the sections of one node type
Hostnames(nodeType, n, hostnameSuffix) ==
    [ idx \in 1..n |-> << nodeType, idx - 1, nodeType >> \o hostnameSuffix ]

\* GetConfigString with the Hostname lines, rendered when the lookup
\* returns k8sCname
GetConfigStringWithHostnames(spec, generation, old, k8sCname) ==
    LET cfg    == GetConfigString(spec, generation, old)
        suffix == GetHostnameSuffix(k8sCname)
    IN  [ sections        |-> cfg,
          mgmdHostnames   |-> Hostnames("mgmd", Len(cfg.mgmdIds), suffix),
          ndbdHostnames   |-> Hostnames("ndbd", Len(cfg.ndbdIds), suffix),
          mysqldHostnames |-> Hostnames("mysqld", Len(cfg.mysqldIds), suffix) ]

\* the specs rendered: the valid ones of the small clusters
RenderedSpecs == { sp \in CandidateSpecs : sp.nodeCount <= 4 /\ HasValidSpec(sp) }

\* a spec and a previous summary are given to the generator
RenderInit ==
    \E sp \in RenderedSpecs :
    \E old \in { NoSummary,
                 NewResourceContextFromConfiguration(GetConfigString(sp, 1, NoSummary)) } :
        /\ arg = [ phase |-> "render", spec |-> sp, old |-> old, texts |-> << >> ]
        /\ ndb = [ spec |-> sp, generation |-> 1, processedGeneration |-> 0 ]
        /\ k8s = [ cm |-> NoConfig ]
        /\ nodes = << >>
        /\ tick = NoTick
        /\ crashes = 0

\* GetConfigString is called with the spec and the summary given; the
\* lookup returns one of its outcomes
Render ==
    /\ arg.phase = "render"
    /\ Len(arg.texts) < MaxRenders
    /\ \E k8sCname \in LookupOutcomes :
          arg' = [arg EXCEPT !.texts =
                    Append(@, GetConfigStringWithHostnames(arg.spec, ndb.generation,
                                                           arg.old, k8sCname))]
    /\ UNCHANGED << ndb, k8s, nodes, tick, crashes >>

RenderNext == Render

RenderSpec == RenderInit /\ [][RenderNext]_vars

\* ------------------------------------------------ admission of updates
\* values of spec.mysqld.rootHost
RootHosts == { "%", "localhost" }

\* the specs an update goes from and to
UpdateSpecs ==
    [ nodeCount : {2, 3, 4, 142},
      redundancyLevel : {1, 2},
      mysqldPresent : BOOLEAN,
      mysqlServerCount : 0..MaxMySQLServers,
      freeAPISlots : {1},
      rootHost : RootHosts,
      customSecret : {FALSE} ]

\* the user asks to replace the spec old of a running cluster by new
UpdateRequested(old, new) ==
    /\ arg = [ phase |-> "requested", old |-> old, new |-> new ]
    /\ ndb = [ spec |-> old, generation |-> 1, processedGeneration |-> 1 ]
    /\ k8s = [ cm |-> GetConfigString(old, 1, NoSummary) ]
    /\ nodes = << >>
    /\ tick = NoTick
    /\ crashes = 0

AdmissionInit ==
    \E old, new \in UpdateSpecs : HasValidSpec(old) /\ UpdateRequested(old, new)

\* the webhook admits the update that IsValidSpecUpdate accepts: the object
\* gets the new spec and the next generation
AdmitUpdate ==
    /\ arg.phase = "requested"
    /\ IsValidSpecUpdate(arg.old, arg.new)
    /\ arg' = [arg EXCEPT !.phase = "admitted"]
    /\ ndb' = [ndb EXCEPT !.spec = arg.new, !.generation = @ + 1]
    /\ UNCHANGED << k8s, nodes, tick, crashes >>

\* the webhook rejects the update that IsValidSpecUpdate does not accept:
\* the object keeps its spec
RejectUpdate ==
    /\ arg.phase = "requested"
    /\ ~IsValidSpecUpdate(arg.old, arg.new)
    /\ arg' = [arg EXCEPT !.phase = "rejected"]
    /\ UNCHANGED << ndb, k8s, nodes, tick, crashes >>

AdmissionNext == AdmitUpdate \/ RejectUpdate

AdmissionSpec == AdmissionInit /\ [][AdmissionNext]_vars

\* --------------------------------------------- status of the NdbCluster
\* fmt.Sprintf("Ready:%d/%d", ready, wanted)
ReadyString(ready, wanted) == << "Ready", ready, wanted >>

\* Status.ReadyReplicas of a StatefulSet, 0 when the StatefulSet is nil
ReadyReplicasOf(sfset) == IF sfset.exists THEN sfset.readyReplicas ELSE 0

\* the name of the secret the operator generates, none for a custom secret
GeneratedSecretName(nc, mysqldSfset) ==
    IF mysqldSfset.exists /\ GetMySQLServerNodeCount(nc.spec) > 0
                          /\ ~nc.spec.customSecret
    THEN "generated" ELSE ""

\* calculateNdbClusterStatus of the v1alpha1 API: an ongoing sync reports
\* generation - 1 as processed and does not look at the pods
calculateNdbClusterStatusV1alpha1(nc, sc) ==
    [ ReadyManagementNodes |->
          ReadyString(ReadyReplicasOf(sc.mgmdNodeSfset), GetManagementNodeCount(nc.spec)),
      ReadyDataNodes |->
          ReadyString(ReadyReplicasOf(sc.dataNodeSfSet), nc.spec.nodeCount),
      ReadyMySQLServers |->
          ReadyString(ReadyReplicasOf(sc.mysqldSfset), GetMySQLServerNodeCount(nc.spec)),
      GeneratedRootPasswordSecretName |-> GeneratedSecretName(nc, sc.mysqldSfset),
      ProcessedGeneration |-> IF sc.syncSuccess THEN nc.generation ELSE nc.generation - 1,
      Conditions |->
          << IF sc.syncSuccess
             THEN [ Type |-> "UpToDate", Status |-> "True", Reason |-> "SyncSuccess" ]
             ELSE [ Type |-> "UpToDate", Status |-> "False",
                    Reason |-> IF nc.generation = 1 THEN "ISR"
                               ELSE "SpecUpdateInProgress" ] >> ]

\* the NdbClusterUpToDate condition of calculateNdbClusterStatus
upToDateCondition(nc, sc) ==
    IF sc.syncSuccess
    THEN [ Type |-> "UpToDate", Status |-> "True", Reason |-> "SyncSuccess" ]
    ELSE [ Type |-> "UpToDate", Status |-> "False",
           Reason |-> IF sc.podErrors THEN "Error"
                      ELSE IF nc.generation = 1 THEN "ISR"
                      ELSE "SpecUpdateInProgress" ]

\* SyncContext.calculateNdbClusterStatus
calculateNdbClusterStatus(nc, sc) ==
    [ ReadyManagementNodes |->
          ReadyString(ReadyReplicasOf(sc.mgmdNodeSfset), GetManagementNodeCount(nc.spec)),
      ReadyDataNodes |->
          ReadyString(ReadyReplicasOf(sc.dataNodeSfSet), nc.spec.nodeCount),
      ReadyMySQLServers |->
          ReadyString(ReadyReplicasOf(sc.mysqldSfset), GetMySQLServerNodeCount(nc.spec)),
      GeneratedRootPasswordSecretName |-> GeneratedSecretName(nc, sc.mysqldSfset),
      ProcessedGeneration |-> IF sc.syncSuccess THEN nc.generation
                              ELSE nc.processedGeneration,
      Conditions |-> << upToDateCondition(nc, sc) >> ]

\* a StatefulSet as the SyncContext holds it: nil, or its Status.ReadyReplicas
ObservedStatefulSets ==
    { [ exists |-> FALSE, readyReplicas |-> 0 ] }
        \cup { [ exists |-> TRUE, readyReplicas |-> r ] : r \in 0..MaxMySQLServers }

\* the SyncContexts calculateNdbClusterStatus is called with
SyncContexts ==
    [ syncSuccess : BOOLEAN,
      podErrors : BOOLEAN,
      mgmdNodeSfset : ObservedStatefulSets,
      dataNodeSfSet : { [ exists |-> TRUE, readyReplicas |-> 4 ] },
      mysqldSfset : ObservedStatefulSets ]

\* the sync of NdbCluster nc has ended with SyncContext sc
SyncEnded(nc, sc) ==
    /\ arg = [ phase |-> "synced", sc |-> sc ]
    /\ ndb = nc
    /\ k8s = [ cm |-> NoConfig ]
    /\ nodes = << >>
    /\ tick = NoTick
    /\ crashes = 0

StatusInit ==
    \E sp \in SpecsOf({ << 4, 2 >> }), g \in 1..MaxGeneration, sc \in SyncContexts :
        \E p \in 0..g :
            SyncEnded([ spec |-> sp, generation |-> g, processedGeneration |-> p ], sc)

\* the status of the NdbCluster is calculated
CalculateStatus ==
    /\ arg.phase = "synced"
    /\ arg' = [ phase |-> "calculated", sc |-> arg.sc,
                status |-> calculateNdbClusterStatus(ndb, arg.sc) ]
    /\ UNCHANGED << ndb, k8s, nodes, tick, crashes >>

StatusNext == CalculateStatus

StatusSpec == StatusInit /\ [][StatusNext]_vars

\* ------------------------------------------------- ticks of a rollout
\* the ticks that stopped data nodes for the stored config generation and
\* returned requeue(5), as counted in arg
StopTicks ==
    IF arg.phase = "rollout" /\ arg.generation = StoredGenerationOf(k8s)
    THEN arg.stopTicks ELSE 0

\* the result of sync stops data nodes and requeues
StopsDataNodes(r) ==
    /\ r.res = "requeue5"
    /\ \E i \in DOMAIN r.w.ops : r.w.ops[i].op = "StopNodes" /\ r.w.ops[i].kind = "ndbd"

\* a tick, counted when it stops data nodes; the count stops at MaxStopTicks
CountedTickReturns(r) ==
    /\ TickObjects(r)
    /\ arg' = IF StopsDataNodes(r)
              THEN [ phase |-> "rollout", generation |-> StoredGenerationOf(r.w.k8s),
                     stopTicks |-> IF StopTicks < MaxStopTicks THEN StopTicks + 1
                                   ELSE MaxStopTicks ]
              ELSE arg
    /\ UNCHANGED crashes

CountedTick ==
    \E sqlPodsReady \in PodObservations :
        LET w0 == TickContext(sqlPodsReady)
            r0 == sync(w0, NoFailure)
        IN  \E f \in Failures(r0) :
                CountedTickReturns(IF f = NoFailure THEN r0 ELSE sync(w0, f))

\* clusters with two node groups of two data nodes
RolloutInit == \E sp \in SpecsOf({ << 4, 2 >> }) : Created(sp)

\* the controller, spec updates and the restarts the controller asks for;
\* no node fails
RolloutNext ==
    \/ CountedTick
    \/ SpecUpdate
    \/ NodeShutsDown
    \/ NodeRestarts
    \/ MySQLDUpdateCompletes

RolloutSpec == RolloutInit /\ [][RolloutNext]_vars

\* ------------------------------------------------ events of the ticks
\* the InSync events recorded for the current resource generation, as
\* counted in arg
InSyncEvents ==
    IF arg.phase = "events" /\ arg.generation = ndb.generation
    THEN arg.inSync ELSE 0

\* the result of sync records the event of the given reason
RecordsEvent(r, reason) ==
    \E i \in DOMAIN r.w.ops : r.w.ops[i].op = "Event" /\ r.w.ops[i].kind = reason

\* a tick, counted when it records an InSync event; the count stops at
\* MaxInSyncEvents
EventTickReturns(r) ==
    /\ TickObjects(r)
    /\ arg' = IF RecordsEvent(r, "InSync")
              THEN [ phase |-> "events", generation |-> r.w.ndb.generation,
                     inSync |-> IF InSyncEvents < MaxInSyncEvents
                                THEN InSyncEvents + 1 ELSE MaxInSyncEvents ]
              ELSE arg
    /\ UNCHANGED crashes

EventTick ==
    \E sqlPodsReady \in PodObservations :
        LET w0 == TickContext(sqlPodsReady)
            r0 == sync(w0, NoFailure)
        IN  \E f \in Failures(r0) :
                EventTickReturns(IF f = NoFailure THEN r0 ELSE sync(w0, f))

\* the controller, spec updates and the restarts the controller asks for
EventNext ==
    \/ EventTick
    \/ SpecUpdate
    \/ NodeShutsDown
    \/ NodeRestarts
    \/ MySQLDUpdateCompletes

EventSpec == RolloutInit /\ [][EventNext]_vars

\* ------------------------------------- workloads of another controller
\* the workloads of the cluster, by node type
WorkloadTypes == { "mgmd", "ndbd", "mysqld" }

\* a StatefulSet with the name of a workload of the NdbCluster that another
\* controller owns
ForeignStatefulSet == [ exists |-> TRUE, owned |-> FALSE, replicas |-> 1 ]

ForeignMySQLDStatefulSet ==
    [NoMySQLDStatefulSet EXCEPT !.exists = TRUE, !.specReplicas = 1,
                                !.statusReplicas = 1, !.updateComplete = TRUE]

\* a new NdbCluster object of spec sp in a namespace where the workloads
\* named in foreign exist already
CreatedBeside(sp, foreign) ==
    /\ ndb = [ spec |-> sp, generation |-> 1, processedGeneration |-> 0 ]
    /\ k8s = [ services |-> {}, pdb |-> FALSE, cm |-> NoConfig,
               mgmdSfset |-> IF "mgmd" \in foreign THEN ForeignStatefulSet
                             ELSE NoStatefulSet,
               ndbdSfset |-> IF "ndbd" \in foreign THEN ForeignStatefulSet
                             ELSE NoStatefulSet,
               mysqldSfset |-> IF "mysqld" \in foreign THEN ForeignMySQLDStatefulSet
                               ELSE NoMySQLDStatefulSet,
               secret |-> [ exists |-> sp.customSecret, owned |-> FALSE ],
               rootUser |-> FALSE ]
    /\ nodes = [ n \in MgmdIds(sp) \cup DataIds(sp) |->
                   [ status |-> "absent", gen |-> 0 ] ]
    /\ tick = NoTick
    /\ crashes = 0
    /\ arg = NoArg

ForeignInit ==
    \E sp \in InitialSpecs, foreign \in (SUBSET WorkloadTypes) \ { {} } :
        CreatedBeside(sp, foreign)

\* the controller and the StatefulSet controller starting the pods of the
\* workloads the operator created
ForeignNext ==
    \/ Tick
    \/ NodeRestarts

ForeignSpec == ForeignInit /\ [][ForeignNext]_vars

\* -------------------------------------------------------------- fairness
\* clusters of the liveness check
LiveTopologies == { << 1, 1 >>, << 2, 2 >> }

LiveInit == \E sp \in SpecsOf(LiveTopologies) : Created(sp)

\* a tick that succeeds would change nothing, its report included
TickSucceedsStutters ==
    LET r == sync(TickContext(TRUE), NoFailure) IN
    /\ ndb = r.w.ndb
    /\ k8s = r.w.k8s
    /\ nodes = r.w.nodes
    /\ tick = [ verdict |-> r.res, ops |-> r.w.ops, sessions |-> r.w.sessions ]

\* weak fairness of TickSucceeds, with its enabling condition written out
\* (ENABLED <<TickSucceeds>>_vars is ~TickSucceedsStutters)
TickFairness == []<>TickSucceedsStutters \/ []<><<TickSucceeds>>_vars

\* stopped nodes are restarted, StatefulSet updates are rolled out, and ticks
\* whose remote calls succeed keep coming
LiveSpec ==
    /\ LiveInit
    /\ [][Next]_vars
    /\ WF_vars(NodeShutsDown)
    /\ WF_vars(NodeRestarts)
    /\ WF_vars(MySQLDUpdateCompletes)
    /\ TickFairness

\* ================================================================ claims
Range(s) == { s[i] : i \in DOMAIN s }

\* a node the operator asked to stop that has not rejoined the cluster
IntentionallyStopped(n) == nodes[n].status \in {"stopping", "stopped"}

\* the node groups of the cluster: redundancyLevel consecutive data node ids
NodeGroups ==
    LET first == GetManagementNodeCount(ndb.spec) + 1
        rl    == ndb.spec.redundancyLevel
    IN  { { first + (g - 1) * rl + i : i \in 0..(rl - 1) } :
              g \in 1..(ndb.spec.nodeCount \div rl) }

TickRan == tick.verdict # "none"

Issued(o) == \E i \in DOMAIN tick.ops : tick.ops[i] = o

IssuedKind(name, kind) ==
    \E i \in DOMAIN tick.ops : tick.ops[i].op = name /\ tick.ops[i].kind = kind

StoredGeneration(k) == StoredGenerationOf(k)

\* C1: every node group has at most one data node that the operator asked
\* to stop and that has not rejoined the cluster.
C1_OneStoppedPerNodeGroup ==
    \A g \in NodeGroups : Cardinality({ n \in g : IntentionallyStopped(n) }) <= 1

\* the data phase has stopped one node in each of two node groups
C1_Witness ==
    /\ IssuedKind("StopNodes", "ndbd")
    /\ \E g, h \in NodeGroups :
          /\ g # h
          /\ \E n \in g : IntentionallyStopped(n)
          /\ \E n \in h : IntentionallyStopped(n)

\* C2: at most one management node is intentionally stopped at any time.
C2_OneStoppedManagementNode ==
    Cardinality({ n \in MgmdIds(ndb.spec) : IntentionallyStopped(n) }) <= 1

\* the second management node is stopped, after the first was restarted
C2_Witness ==
    /\ Issued(Op("StopNodes", "mgmd", {2}))
    /\ IntentionallyStopped(2)
    /\ nodes[1].gen = StoredGeneration(k8s)

\* a request of the SQL scale-down phase
IsScaleDownOp(o) ==
    \/ o.op = "Delete" /\ o.kind \in {"rootuser", "secret", "mysqld"}
    \/ o.op = "Patch" /\ o.kind = "mysqld"

\* a stop request sent to the management server, accepted or not
IsStopOf(o, kind) == o.op \in {"StopNodes", "StopNodesFailed"} /\ o.kind = kind

\* C3: in the requests of one tick, no stop of a node follows a patch or
\* delete of the SQL workload, no stop of a data node follows a stop of a
\* management node, and when a tick stops data nodes every management node
\* reports the stored config generation.
C3_PhaseOrdering ==
    /\ \A i, j \in DOMAIN tick.ops :
          i < j /\ IsScaleDownOp(tick.ops[i])
             => ~IsStopOf(tick.ops[j], "mgmd") /\ ~IsStopOf(tick.ops[j], "ndbd")
    /\ \A i, j \in DOMAIN tick.ops :
          IsStopOf(tick.ops[i], "mgmd") => ~IsStopOf(tick.ops[j], "ndbd")
    /\ IssuedKind("StopNodes", "ndbd")
          => \A m \in MgmdIds(ndb.spec) :
                nodes[m].gen = StoredGeneration(k8s) /\ ~IntentionallyStopped(m)

\* a tick stops data nodes of a config generation that the management
\* nodes were restarted for
C3_Witness ==
    /\ IssuedKind("StopNodes", "ndbd")
    /\ StoredGeneration(k8s) >= 2
    /\ k8s.mysqldSfset.exists

\* every management and data node runs the stored config generation
AllNodesRunStored ==
    \A n \in DOMAIN nodes :
        nodes[n].status = "up" /\ nodes[n].gen = StoredGeneration(k8s)

\* HandleScaleDown has nothing to do
NoScaleDownLeft ==
    \/ ~k8s.mysqldSfset.exists
    \/ /\ k8s.mysqldSfset.updateComplete
       /\ k8s.mysqldSfset.statusReplicas <= Len(k8s.cm.mysqldIds)

\* C4: the stored config is rewritten only by a tick that found the SQL
\* scale-down, management and data phases with nothing to do: every node
\* runs the stored config generation; so no step taken while a generation is
\* being rolled out, a spec update included, changes the stored config.
C4_PersistOnlyAfterRollout ==
    [][ k8s.cm.exists /\ k8s'.cm # k8s.cm
           => /\ AllNodesRunStored
              /\ NoScaleDownLeft
              /\ tick'.verdict \in {"requeue0", "error"}
              /\ nodes' = nodes ]_vars

\* a tick ran while a generation was being rolled out and the spec had
\* been updated again
C4_Witness ==
    /\ TickRan
    /\ k8s.cm.exists
    /\ StoredGeneration(k8s) = 2
    /\ \E n \in DOMAIN nodes : nodes[n].gen = 1 /\ nodes[n].status = "up"
    /\ \E n \in DOMAIN nodes : nodes[n].gen = 2
    /\ CalculateNewConfigHash(ndb.spec) # k8s.cm.ConfigHash

\* C5: the generation of the stored config starts at 1 and every rewrite of
\* the stored config writes the previous generation plus 1; no step
\* decreases it.
C5_ConfigGenerationMonotone ==
    [][ /\ StoredGeneration(k8s') \in { StoredGeneration(k8s), StoredGeneration(k8s) + 1 }
        /\ k8s'.cm # k8s.cm => StoredGeneration(k8s') = StoredGeneration(k8s) + 1 ]_vars

\* the stored config was regenerated twice
C5_Witness ==
    /\ Issued(Op("Patch", "configmap", {}))
    /\ StoredGeneration(k8s) = 3

\* the spec is processed and the stored config is the config of the spec
InSync ==
    /\ ndb.generation = ndb.processedGeneration
    /\ k8s.cm.exists
    /\ CalculateNewConfigHash(ndb.spec) = k8s.cm.ConfigHash

\* C6: under fairness the cluster reaches a state where every node runs the
\* stored config generation, the stored config is the config of the spec,
\* the spec is processed, and the tick returns finish.
C6_EventuallyInSync ==
    <>(InSync /\ AllNodesRunStored /\ tick.verdict = "finish")

\* the cluster is in sync again after a spec update was rolled out
C6_Witness ==
    /\ InSync
    /\ AllNodesRunStored
    /\ tick.verdict = "finish"
    /\ ndb.generation = 2
    /\ StoredGeneration(k8s) = 2

\* a request that changes something: everything but the events
IsMutation(o) == o.op # "Event"

NoMutation == \A i \in DOMAIN tick.ops : ~IsMutation(tick.ops[i])

\* C7 as stated: a tick of a cluster that is in sync issues no mutation and
\* returns finish.
C7_InSyncTickFinishes ==
    [][ InSync /\ TickRan' => NoMutation' /\ tick'.verdict = "finish" ]_vars

\* C7: a tick of a cluster that is in sync issues no mutation and changes
\* no object; it returns finish when it gets through, and otherwise requeues
\* (a pod is not ready, the cluster is not healthy) or returns the error of
\* the remote call that failed.
C7_InSyncTickNoOp ==
    [][ InSync /\ TickRan'
           => /\ NoMutation'
              /\ << ndb, k8s, nodes >>' = << ndb, k8s, nodes >>
              /\ tick'.verdict \in {"finish", "requeue5", "error"}
              /\ tick'.verdict = "finish" <=> tick'.ops = << Op("Event", "InSync", {}) >>
              /\ AllNodesRunStored /\ tick'.verdict # "error"
                    => tick'.verdict = "finish" ]_vars

\* a tick of a cluster that is in sync found a node down and requeued
C7_Witness ==
    /\ InSync
    /\ tick.verdict = "requeue5"
    /\ \E n \in DOMAIN nodes : nodes[n].status = "down"
    /\ ndb.generation >= 2

\* the secret was created by the operator
Minted == ~ndb.spec.customSecret

\* C8: after any tick the secret has been deleted exactly when the SQL
\* workload has been deleted and the secret was minted by the operator; a
\* secret of the user is never deleted, and a minted secret is never deleted
\* while the workload exists.
C8_SecretDeletedIffWorkloadDeleted ==
    /\ TickRan
          => (Issued(Op("Delete", "secret", {}))
                 <=> Issued(Op("Delete", "mysqld", {})) /\ Minted)
    /\ ~Minted => k8s.secret.exists
    /\ Minted /\ k8s.mysqldSfset.exists => k8s.secret.exists

\* C9: the node ids of the management, data, mysqld and api sections of the
\* config generated for an accepted spec are pairwise disjoint.
C9_NodeIdsDisjoint ==
    arg.phase = "generated"
       => LET c == arg.config
              ids == << Range(c.mgmdIds), Range(c.ndbdIds),
                        Range(c.mysqldIds), Range(c.apiIds) >>
          IN  \A i, j \in 1..4 : i # j => ids[i] \cap ids[j] = {}

\* C10: a tick leaves no management session connected when it returns.
C10_SessionsDisconnected == TickRan => tick.sessions = 0

\* C11: a step that writes status.processedGeneration = g is taken when every
\* management and data node runs the stored config generation and the stored
\* config was generated from the spec of resource generation g (it carries
\* generation g, or g is the current generation and the stored config has
\* the hash of the current spec).
C11_ProcessedGenerationApplied ==
    [][ ndb'.processedGeneration # ndb.processedGeneration
           => /\ k8s.cm.exists
              /\ AllNodesRunStored
              /\ \/ k8s.cm.NdbClusterGeneration = ndb'.processedGeneration
                 \/ /\ ndb'.processedGeneration = ndb.generation
                    /\ k8s.cm.ConfigHash = CalculateNewConfigHash(ndb.spec) ]_vars

\* C12: a tick whose status update returns an error has the verdict of the
\* tick with a successful status write: requeue(0) when the tick rewrote the
\* stored config, finish otherwise.
C12_StatusFailureKeepsVerdict ==
    IssuedKind("UpdateStatus", "error")
        => tick.verdict = (IF IssuedKind("Patch", "configmap") THEN "requeue0"
                           ELSE "finish")

\* the processedGeneration the tick just taken computed for the status:
\* generation - 1 in a tick that rewrote the stored config, else generation
ComputedProcessedGeneration ==
    IF IssuedKind("Patch", "configmap") THEN ndb.generation - 1 ELSE ndb.generation

\* C13: the status update retries a conflict a bounded number of times and,
\* whenever it returns success, the stored status carries the
\* processedGeneration this tick computed; an error that is not a conflict
\* ends the update, and the tick, with that error.
C13_StatusWriteCarriesComputed ==
    /\ IssuedKind("UpdateStatus", "status")
          => ndb.processedGeneration = ComputedProcessedGeneration
    /\ IssuedKind("UpdateStatus", "error")
          => /\ tick.verdict = "error"
             /\ ~IssuedKind("UpdateStatus", "status")

\* the step patches the SQL workload to fewer replicas
ScaleDownPatched ==
    /\ k8s.mysqldSfset.exists
    /\ k8s'.mysqldSfset.exists
    /\ k8s'.mysqldSfset.specReplicas < k8s.mysqldSfset.specReplicas

\* the step rewrites the stored config with fewer MySQL Servers
ConfigShrinks ==
    /\ k8s.cm.exists
    /\ k8s'.cm # k8s.cm
    /\ Len(k8s'.cm.mysqldIds) < Len(k8s.cm.mysqldIds)

\* the step is a tick that asks a management or data node to stop
StopsNode ==
    \E i \in DOMAIN tick'.ops :
        IsStopOf(tick'.ops[i], "mgmd") \/ IsStopOf(tick'.ops[i], "ndbd")

\* C14: on a SQL scale-down the tick that patches the SQL workload to fewer
\* replicas ends there and comes before the stored config is regenerated:
\* the stored config still counts more MySQL Servers than the patch leaves,
\* and the stored config is rewritten with fewer MySQL Servers only once the
\* workload has settled at the new count.
C14_ScaleDownBeforeRegeneration ==
    [][ /\ ScaleDownPatched
           => /\ tick'.verdict = "finish"
              /\ Len(k8s.cm.mysqldIds) > k8s'.mysqldSfset.specReplicas
        /\ ConfigShrinks /\ k8s.mysqldSfset.exists
           => /\ k8s.mysqldSfset.updateComplete
              /\ k8s.mysqldSfset.statusReplicas <= Len(k8s'.cm.mysqldIds) ]_vars

\* C14, as the code orders it: the stored config is regenerated first, by a
\* tick that leaves the SQL workload alone and returns requeue(0) (or the
\* error of the status update); a later tick patches the SQL workload to the
\* count of the stored config, does nothing else and returns finish; and a
\* management or data node is asked to stop only when the SQL workload has
\* settled at no more replicas than the stored config counts.
C14_RegenerationBeforeScaleDown ==
    [][ /\ ConfigShrinks
           => /\ k8s'.mysqldSfset = k8s.mysqldSfset
              /\ tick'.verdict \in {"requeue0", "error"}
        /\ ScaleDownPatched
           => /\ tick'.verdict = "finish"
              /\ k8s'.mysqldSfset.specReplicas = Len(k8s.cm.mysqldIds)
              /\ tick'.ops = << Op("Patch", "mysqld", {Len(k8s.cm.mysqldIds)}) >>
              /\ k8s'.cm = k8s.cm
              /\ nodes' = nodes
        /\ StopsNode => NoScaleDownLeft ]_vars

\* the scale-down phase has patched the SQL workload from 2 replicas to the
\* one MySQL Server of the regenerated config
C14_Witness ==
    /\ tick.verdict = "finish"
    /\ tick.ops = << Op("Patch", "mysqld", {1}) >>
    /\ StoredGeneration(k8s) = 2
    /\ Len(k8s.cm.mysqldIds) = 1
    /\ k8s.mysqldSfset.statusReplicas = 2
    /\ k8s.mysqldSfset.specReplicas = 1

\* HandleScaleDown has a scale down to handle: the update of the SQL
\* workload is complete and it has more replicas than the stored config
\* counts MySQL Servers
ScaleDownRequested ==
    /\ k8s.cm.exists
    /\ k8s.mysqldSfset.exists
    /\ k8s.mysqldSfset.updateComplete
    /\ k8s.mysqldSfset.statusReplicas > Len(k8s.cm.mysqldIds)

\* C15: a tick that handles a requested scale down and finishes has, when
\* the stored config counts 0 MySQL Servers, deleted the root user, the
\* secret if the operator owns it, and the SQL workload, without patching
\* the workload; when the count is positive it has only patched the replicas
\* of the workload to that count.  No tick goes past the scale down.
C15_ScaleDownDeletesOrPatches ==
    [][ ScaleDownRequested /\ tick'.verdict # "none"
           => /\ tick'.verdict \in {"finish", "requeue5", "error"}
              /\ tick'.verdict = "finish" /\ Len(k8s.cm.mysqldIds) = 0
                    => /\ ~k8s'.mysqldSfset.exists
                       /\ ~k8s'.rootUser
                       /\ k8s.secret.owned => ~k8s'.secret.exists
                       /\ ~k8s.secret.owned => k8s'.secret = k8s.secret
                       /\ \A i \in DOMAIN tick'.ops : tick'.ops[i].op = "Delete"
              /\ tick'.verdict = "finish" /\ Len(k8s.cm.mysqldIds) > 0
                    => /\ tick'.ops = << Op("Patch", "mysqld", {Len(k8s.cm.mysqldIds)}) >>
                       /\ k8s' = [k8s EXCEPT
                                    !.mysqldSfset.specReplicas = Len(k8s.cm.mysqldIds),
                                    !.mysqldSfset.updateComplete = FALSE]
                       /\ nodes' = nodes ]_vars

\* a scale down to 0 servers has deleted the root user, the secret the
\* operator created and the SQL workload
C15_Witness ==
    /\ tick.verdict = "finish"
    /\ tick.ops = << Op("Delete", "rootuser", {}), Op("Delete", "secret", {}),
                     Op("Delete", "mysqld", {}) >>
    /\ ~k8s.mysqldSfset.exists
    /\ Len(k8s.cm.mysqldIds) = 0

\* the update changes the rootHost of a cluster that runs MySQL Servers and
\* can be updated, and nothing else
RootHostChange(old, new) ==
    /\ old.redundancyLevel # 1
    /\ old.mysqldPresent
    /\ old.mysqlServerCount > 0
    /\ new.rootHost # old.rootHost
    /\ new = [old EXCEPT !.rootHost = new.rootHost]

\* C16: a change of spec.mysqld.rootHost on a running cluster is applied: the
\* update is not rejected, the object gets the spec with the new rootHost
\* for the root-user reconcile to act on.
C16_RootHostChangeApplied ==
    /\ arg.phase = "rejected" => ~RootHostChange(arg.old, arg.new)
    /\ arg.phase = "admitted" /\ RootHostChange(arg.old, arg.new)
          => ndb.spec.rootHost = arg.new.rootHost

IsExampleSpec(sp) ==
    /\ sp.nodeCount = 2
    /\ sp.redundancyLevel = 2
    /\ sp.mysqldPresent
    /\ sp.mysqlServerCount = 2
    /\ sp.freeAPISlots = 2

\* C19: the first config generated for a spec has ConfigGenerationNumber 1
\* and gives the management nodes the ids 1..M, the data nodes the ids
\* M+1..M+nodeCount, the MySQL Servers mysqlServerCount ids from 129 and the
\* free API slots the ids that follow; the example spec gets 1-2, 3-4,
\* 129-130 and 131-132.
C19_NodeIdAssignment ==
    arg.phase = "generated"
        => LET c  == arg.config
               sp == arg.spec
               M  == GetManagementNodeCount(sp)
               S  == GetMySQLServerNodeCount(sp)
           IN  /\ c.ConfigGenerationNumber = 1
               /\ c.mgmdIds = [i \in 1..M |-> i]
               /\ c.ndbdIds = [i \in 1..sp.nodeCount |-> M + i]
               /\ c.mysqldIds = [i \in 1..S |-> NdbNodeTypeAPIStartNodeId + i - 1]
               /\ c.apiIds = [i \in 1..sp.freeAPISlots |->
                                 NdbNodeTypeAPIStartNodeId + S + i - 1]
               /\ IsExampleSpec(sp)
                     => /\ c.mgmdIds = << 1, 2 >>
                        /\ c.ndbdIds = << 3, 4 >>
                        /\ c.mysqldIds = << 129, 130 >>
                        /\ c.apiIds = << 131, 132 >>

\* the config of the example spec is generated
C19_Witness ==
    /\ arg.phase = "generated"
    /\ IsExampleSpec(arg.spec)
    /\ arg.config.apiIds = << 131, 132 >>

\* the requests of the tick that stop data nodes
DataStops == { i \in DOMAIN tick.ops : IsStopOf(tick.ops[i], "ndbd") }

\* every data node runs the stored config generation
DataNodesRunStored ==
    \A n \in DataIds(ndb.spec) :
        nodes[n].status = "up" /\ nodes[n].gen = StoredGeneration(k8s)

\* C20: a tick issues at most one StopNodes request for data nodes, it names
\* at most one node of every node group, and the tick returns requeue(5); so
\* when the data nodes all run a stored config generation that was rolled
\* onto them, at least redundancyLevel ticks have stopped data nodes for
\* that generation and returned requeue(5).
C20_OneStopRequestPerTick ==
    /\ Cardinality(DataStops) <= 1
    /\ \A i \in DataStops :
          /\ tick.verdict = "requeue5"
          /\ \A g \in NodeGroups : Cardinality(tick.ops[i].ids \cap g) <= 1
    /\ StoredGeneration(k8s) >= 2 /\ DataNodesRunStored
          => StopTicks >= ndb.spec.redundancyLevel

\* the data phase finds generation 2 on every data node after two ticks
\* that stopped one node of every node group
C20_Witness ==
    /\ tick.verdict \in {"finish", "requeue0"}
    /\ StoredGeneration(k8s) = 2
    /\ DataNodesRunStored
    /\ StopTicks = 2
    /\ ndb.spec.redundancyLevel = 2

\* the spec has another hash than the stored config
HashesDiffer ==
    k8s.cm.exists /\ k8s.cm.ConfigHash # CalculateNewConfigHash(ndb.spec)

\* the tick of the step ended in the MySQL Server reconciliation: it has a
\* request for the SQL workload, its secret or its root user, or it found
\* the update of the workload not complete
EndedInSQLReconcile ==
    \/ k8s.mysqldSfset.exists /\ ~k8s.mysqldSfset.updateComplete
    \/ \E i \in DOMAIN tick'.ops :
          tick'.ops[i].kind \in {"mysqld", "secret", "rootuser", "service"}

\* C21: a tick that passes all phases with a spec hash that differs from
\* the stored hash stores the config regenerated from the spec and returns
\* requeue(0); with equal hashes it leaves the config store alone and
\* returns finish.  No other tick returns requeue(0) or writes the store.
C21_DiffAndPersist ==
    [][ tick'.verdict # "none" /\ k8s.cm.exists
           => /\ tick'.verdict = "requeue0"
                    => /\ HashesDiffer
                       /\ k8s'.cm = GetConfigString(ndb.spec, ndb.generation,
                                        NewResourceContextFromConfiguration(k8s.cm))
              /\ k8s'.cm # k8s.cm
                    => HashesDiffer /\ tick'.verdict \in {"requeue0", "error"}
              /\ tick'.verdict = "finish"
                    => /\ k8s'.cm = k8s.cm
                       /\ HashesDiffer => EndedInSQLReconcile ]_vars

\* the tick stored the config of generation 2 and asked for a requeue
C21_Witness ==
    /\ tick.verdict = "requeue0"
    /\ Issued(Op("Patch", "configmap", {}))
    /\ StoredGeneration(k8s) = 2
    /\ ~HashesDiffer

\* a workload of the cluster exists and is not controlled by the NdbCluster
ForeignWorkload ==
    \/ k8s.mgmdSfset.exists /\ ~k8s.mgmdSfset.owned
    \/ k8s.ndbdSfset.exists /\ ~k8s.ndbdSfset.owned
    \/ k8s.mysqldSfset.exists /\ ~k8s.mysqldSfset.owned

\* the report of the tick whose calls all succeed
SucceedingTick ==
    LET r == sync(TickContext(TRUE), NoFailure)
    IN  [ verdict |-> r.res, ops |-> r.w.ops, sessions |-> r.w.sessions ]

\* C22: while a workload exists that the NdbCluster does not control, every
\* tick returns an error, opens no management session, stops no node,
\* patches or deletes nothing, writes neither the stored config of a later
\* generation nor the status, and issues nothing after the ResourceExists
\* event; the tick whose calls succeed ends with that event.
C22_ForeignWorkloadFailsTick ==
    [][ ForeignWorkload /\ tick'.verdict # "none"
           => /\ tick'.verdict = "error"
              /\ tick'.sessions = 0
              /\ \A i \in DOMAIN tick'.ops :
                    /\ tick'.ops[i].op \in {"Create", "Event"}
                    /\ tick'.ops[i] = Op("Event", "ResourceExists", {})
                          => i = Len(tick'.ops)
              /\ k8s.cm.exists => k8s'.cm = k8s.cm
              /\ ndb' = ndb
              /\ tick' = SucceedingTick
                    => /\ tick'.ops # << >>
                       /\ tick'.ops[Len(tick'.ops)] = Op("Event", "ResourceExists", {}) ]_vars

\* a tick found the data node StatefulSet of another controller after it
\* had created the management StatefulSet
C22_Witness ==
    /\ tick.verdict = "error"
    /\ k8s.ndbdSfset.exists /\ ~k8s.ndbdSfset.owned
    /\ k8s.mgmdSfset.owned
    /\ tick.ops # << >>
    /\ tick.ops[Len(tick.ops)] = Op("Event", "ResourceExists", {})

\* the services, the pod disruption budget, the config map and the
\* management and data StatefulSets exist
AllResourcesExist(k) ==
    /\ k.services = Range(ServiceNames)
    /\ k.pdb
    /\ k.cm.exists
    /\ k.mgmdSfset.exists
    /\ k.ndbdSfset.exists

\* a request that creates one of the resources of ensureAllResources
IsResourceCreate(o) ==
    o.op = "Create" /\ o.kind \in {"service", "pdb", "configmap", "mgmd", "ndbd"}

PodsReadyAndHealthy(sqlPodsReady) ==
    /\ IsHealthy(nodes)
    /\ (k8s.mysqldSfset.exists /\ ~k8s.mysqldSfset.updateComplete) => sqlPodsReady

\* a request of the phases behind the readiness and health checks: anything
\* but the creation of a missing resource and the event of a foreign one
IsPhaseOp(o) ==
    /\ ~IsResourceCreate(o)
    /\ ~(o.op = "Event" /\ o.kind = "ResourceExists")

\* C24: a tick issues no stop request, no patch or delete of a workload and
\* no write of the config map (nothing but the creation of missing
\* resources) unless every owned pod is Ready and the cluster is healthy;
\* when a pod is not ready or a node is not connected the tick ends with
\* requeue(5), or with the error of a call that failed, and does nothing else.
C24_NoMutationUnlessReadyAndHealthy ==
    [][ /\ \A b \in BOOLEAN :
            ~PodsReadyAndHealthy(b) =>
                LET w0 == TickContext(b)
                    r0 == sync(w0, NoFailure)
                IN  /\ r0.res = "requeue5"
                    /\ \A f \in Failures(r0) :
                          LET r == IF f = NoFailure THEN r0 ELSE sync(w0, f)
                          IN  /\ r.res \in {"requeue5", "error"}
                              /\ \A i \in DOMAIN r.w.ops : ~IsPhaseOp(r.w.ops[i])
                              /\ \A n \in DOMAIN nodes :
                                    r.w.nodes[n].status = "stopping"
                                       => nodes[n].status = "stopping"
                              /\ r.w.ndb = ndb
        /\ (\E i \in DOMAIN tick'.ops : IsPhaseOp(tick'.ops[i]))
              => /\ IsHealthy(nodes)
                 /\ AllResourcesExist(k8s)
        /\ (tick'.verdict # "none" /\ ~IsHealthy(nodes))
              => /\ tick'.verdict \in {"requeue5", "error"}
                 /\ \A n \in DOMAIN nodes :
                       nodes'[n].status = "stopping" => nodes[n].status = "stopping"
                 /\ k8s'.cm = k8s.cm \/ ~k8s.cm.exists
                 /\ k8s'.mysqldSfset = k8s.mysqldSfset ]_vars

\* a tick found a node of a running cluster shut down and requeued
C24_Witness ==
    /\ tick.verdict = "requeue5"
    /\ tick.ops = << >>
    /\ AllResourcesExist(k8s)
    /\ \E n \in DOMAIN nodes : nodes[n].status = "stopped"
    /\ StoredGeneration(k8s) < ndb.generation

\* the failure input of a tick started now under which the parse of the
\* stored config fails: the parse follows EnsureConfigMap
ParseFailure ==
    LET w0 == TickContext(TRUE)
        s  == ensureServices(w0, NoFailure)
        p  == ensurePodDisruptionBudget(s.w, NoFailure)
        c  == EnsureConfigMap(p.w, NoFailure)
    IN  << c.w.calls + 1, "error" >>

\* C25: in every state, a tick in which the parse of the stored config
\* fails returns an error and does not go on: it creates or patches no
\* management or data workload, stops no node, and issues nothing but the
\* creation of the services, the budget and the config map that were
\* missing; a config map that exists is left as it is.
C25_ParseFailureIsHardError ==
    \A b \in BOOLEAN :
        LET w0 == TickContext(b)
            r  == sync(w0, ParseFailure)
        IN  /\ ParseFailure \in Failures(sync(w0, NoFailure))
            /\ r.res = "error"
            /\ \A i \in DOMAIN r.w.ops :
                  /\ r.w.ops[i].op = "Create"
                  /\ r.w.ops[i].kind \in {"service", "pdb", "configmap"}
            /\ r.w.k8s.mgmdSfset = k8s.mgmdSfset
            /\ r.w.k8s.ndbdSfset = k8s.ndbdSfset
            /\ r.w.k8s.mysqldSfset = k8s.mysqldSfset
            /\ r.w.nodes = nodes
            /\ r.w.ndb = ndb
            /\ r.w.sessions = 0
            /\ k8s.cm.exists => r.w.k8s.cm = k8s.cm

\* a tick of a new cluster ended with an error after it stored the config
\* and before it created a workload
C25_Witness ==
    /\ tick.verdict = "error"
    /\ Len(tick.ops) = Len(ServiceNames) + 2
    /\ tick.ops[Len(tick.ops)] = Op("Create", "configmap", {})
    /\ k8s.cm.exists
    /\ ~k8s.mgmdSfset.exists
    /\ ~k8s.ndbdSfset.exists
    /\ \A n \in DOMAIN nodes : nodes[n].status = "absent"

\* C26: an InSync event is recorded only on the transition to the in-sync
\* state: at most one InSync event per resource generation, however many
\* ticks find the cluster in sync.
C26_InSyncOncePerGeneration == InSyncEvents <= 1

\* C27: the renderings of one spec with one previous summary are the same
\* text, whatever the cluster-domain lookup returned at each of them.
C27_RenderingDeterministic ==
    arg.phase = "render" =>
        \A i, j \in DOMAIN arg.texts : arg.texts[i] = arg.texts[j]

\* C28: an update of a cluster whose spec has redundancyLevel 1 is rejected
\* whatever the new spec is, and IsValidSpecUpdate reports exactly one
\* error, the one of the replica rule.
C28_ReplicaOneRejectsEveryUpdate ==
    (arg.phase \in {"requested", "admitted", "rejected"} /\ arg.old.redundancyLevel = 1)
        => /\ ~IsValidSpecUpdate(arg.old, arg.new)
           /\ IsValidSpecUpdateErrors(arg.old, arg.new) = {"replica is 1"}
           /\ Cardinality(IsValidSpecUpdateErrors(arg.old, arg.new)) = 1
           /\ arg.phase # "admitted"
           /\ ndb.spec = arg.old

\* an update of a cluster of redundancyLevel 1 that changes the node count
\* to a value that is no multiple of the new redundancyLevel was rejected
C28_Witness ==
    /\ arg.phase = "rejected"
    /\ arg.old.redundancyLevel = 1
    /\ arg.new.nodeCount # arg.old.nodeCount
    /\ arg.new.redundancyLevel # 1
    /\ ndb.spec = arg.old

\* the update changes the rootHost of the mysqld section: both specs have
\* the section, with different values
ChangesRootHost(old, new) ==
    old.mysqldPresent /\ new.mysqldPresent /\ old.rootHost # new.rootHost

\* C29: an update that changes nodeCount or redundancyLevel is rejected, and
\* an update is admitted only if nodeCount, redundancyLevel and the rootHost
\* of the mysqld section are unchanged and the new spec passes HasValidSpec
\* (and then it is admitted, unless the old redundancyLevel is 1).
C29_UpdateKeepsTopologyAndRootHost ==
    arg.phase \in {"requested", "admitted", "rejected"} =>
        LET old == arg.old
            new == arg.new
            unchanged == /\ old.nodeCount = new.nodeCount
                         /\ old.redundancyLevel = new.redundancyLevel
                         /\ ~ChangesRootHost(old, new)
        IN  /\ (old.nodeCount # new.nodeCount \/ old.redundancyLevel # new.redundancyLevel)
                  => /\ ~IsValidSpecUpdate(old, new)
                     /\ arg.phase # "admitted"
            /\ old.nodeCount # new.nodeCount
                  => "nodeCount changed" \in IsValidSpecUpdateErrors(old, new)
                     \/ old.redundancyLevel = 1
            /\ old.redundancyLevel # new.redundancyLevel
                  => "redundancyLevel changed" \in IsValidSpecUpdateErrors(old, new)
                     \/ old.redundancyLevel = 1
            /\ IsValidSpecUpdate(old, new) => unchanged /\ HasValidSpec(new)
            /\ arg.phase = "admitted" => unchanged /\ HasValidSpec(new) /\ ndb.spec = new
            /\ (unchanged /\ HasValidSpec(new) /\ old.redundancyLevel # 1)
                  => IsValidSpecUpdate(old, new) /\ arg.phase # "rejected"
            /\ arg.phase = "rejected" => ndb.spec = old

\* an update that changes the number of MySQL Servers and nothing of the
\* topology or the rootHost was admitted
C29_Witness ==
    /\ arg.phase = "admitted"
    /\ arg.old.mysqldPresent /\ arg.new.mysqldPresent
    /\ arg.new.mysqlServerCount # arg.old.mysqlServerCount
    /\ arg.new.nodeCount = arg.old.nodeCount
    /\ arg.new.redundancyLevel = arg.old.redundancyLevel
    /\ arg.new.rootHost = arg.old.rootHost
    /\ ndb.spec = arg.new

\* C30: HasValidSpec reports the nodeCount error, and so rejects the spec,
\* for every spec whose nodeCount is no multiple of its redundancyLevel, and
\* reports no nodeCount error for a spec whose nodeCount is one.
C30_NodeCountMultipleOfRedundancy ==
    arg.phase \in {"validated", "generated"} =>
        LET spec     == arg.spec
            multiple == \E g \in 0..spec.nodeCount : spec.nodeCount = g * spec.redundancyLevel
        IN  /\ ~multiple => /\ "nodeCount" \in HasValidSpecErrors(spec)
                            /\ ~HasValidSpec(spec)
                            /\ ~arg.valid
                            /\ arg.phase # "generated"
            /\ multiple => "nodeCount" \notin HasValidSpecErrors(spec)
            /\ (multiple /\ arg.phase = "validated")
                  => (arg.valid <=> "Total Nodes" \notin HasValidSpecErrors(spec))

\* a spec of 3 data nodes with redundancyLevel 2 was validated and rejected
\* for its nodeCount alone
C30_Witness ==
    /\ arg.phase = "validated"
    /\ arg.spec.nodeCount = 3
    /\ arg.spec.redundancyLevel = 2
    /\ ~arg.valid
    /\ HasValidSpecErrors(arg.spec) = {"nodeCount"}

\* the management, data, MySQL Server and free API nodes of a spec, summed
TotalNodes(spec) ==
    (IF spec.redundancyLevel = 1 THEN 1 ELSE 2) + spec.nodeCount
    + (IF spec.mysqldPresent THEN spec.mysqlServerCount ELSE 0) + spec.freeAPISlots

\* C31: HasValidSpec reports the total-size error exactly for the specs
\* whose management, data, MySQL Server and free API nodes sum to more than
\* 145, and every spec it accepts, and every spec a config is generated
\* for, has a total of at most 145.
C31_TotalNodesWithinMaximum ==
    arg.phase \in {"validated", "generated"} =>
        /\ TotalNodes(arg.spec) > 145 <=> "Total Nodes" \in HasValidSpecErrors(arg.spec)
        /\ TotalNodes(arg.spec) > 145 => ~HasValidSpec(arg.spec)
        /\ arg.phase = "validated" =>
              /\ TotalNodes(arg.spec) > 145 => ~arg.valid
              /\ arg.valid => TotalNodes(arg.spec) <= 145
        /\ arg.phase = "generated" => TotalNodes(arg.spec) <= 145

\* a spec of exactly 145 nodes was accepted
C31_Witness ==
    /\ arg.phase = "validated"
    /\ arg.valid
    /\ TotalNodes(arg.spec) = 145

\* C32: a spec whose redundancyLevel is 1 is rejected by HasValidSpec when
\* it is submitted, and no config is generated for it.
C32_ReplicaOneRejectedUpFront ==
    /\ (arg.phase = "validated" /\ arg.spec.redundancyLevel = 1) => ~arg.valid
    /\ arg.phase = "generated" => arg.spec.redundancyLevel # 1

\* the data nodes at position i (from 1) of their node groups: the groups
\* are runs of redundancyLevel consecutive ids
NodesAtPosition(i) ==
    { n \in DataIds(ndb.spec) :
        \E g \in 0..ndb.spec.nodeCount :
            n = GetManagementNodeCount(ndb.spec) + g * ndb.spec.redundancyLevel + i }

\* the data nodes that report another generation than the stored config
OutdatedDataNodes ==
    { n \in DataIds(ndb.spec) : nodes[n].gen # StoredGeneration(k8s) }

\* C33: a stop request for data nodes names the nodes of one position i of
\* the node groups: all the nodes of that position that report another
\* generation than the target when the tick starts, and no node of another
\* position; every node at an earlier position of every group reports the
\* target generation when the tick starts.
C33_ReplicaIndexAdvancesWhenCurrent ==
    [][ \A j \in DOMAIN tick'.ops :
            IsStopOf(tick'.ops[j], "ndbd") =>
                \E i \in 1..ndb.spec.redundancyLevel :
                    /\ tick'.ops[j].ids = NodesAtPosition(i) \cap OutdatedDataNodes
                    /\ tick'.ops[j].ids # {}
                    /\ \A h \in 1..(i - 1) : NodesAtPosition(h) \cap OutdatedDataNodes = {}
                    /\ \A n \in DataIds(ndb.spec) \ NodesAtPosition(i) :
                          nodes'[n].status = "stopping" => nodes[n].status = "stopping" ]_vars

\* a tick stopped the second node of both node groups, whose first nodes
\* report the stored generation
C33_Witness ==
    /\ ndb.spec.redundancyLevel = 2
    /\ \E j \in DOMAIN tick.ops :
          /\ IsStopOf(tick.ops[j], "ndbd")
          /\ tick.ops[j].ids = NodesAtPosition(2)
    /\ Cardinality(NodesAtPosition(2)) = 2
    /\ \A n \in NodesAtPosition(1) :
          nodes[n].gen = StoredGeneration(k8s) /\ nodes[n].status = "up"
    /\ StoredGeneration(k8s) >= 2

\* the management nodes that report another generation than the stored config
OutdatedManagementNodes ==
    { n \in MgmdIds(ndb.spec) : nodes[n].gen # StoredGeneration(k8s) }

\* the requests of the step's tick that stop management nodes
ManagementStops(ops) == { j \in DOMAIN ops : IsStopOf(ops[j], "mgmd") }

\* C34: the management phase, run in any state that has a stored config,
\* returns continue without a request when every management node reports
\* the target generation, and otherwise issues one StopNodes request, for
\* the lowest-numbered node that does not, and returns requeue(5).  A tick
\* issues at most one stop of a management node, as its last request, for
\* that node, and returns requeue(5); a tick that goes on to the data phase
\* or to the status found every management node at the target generation.
C34_LowestOutdatedManagementNode ==
    [][ /\ k8s.cm.exists =>
              LET w == [TickContext(TRUE) EXCEPT
                           !.rc = NewResourceContextFromConfiguration(k8s.cm)]
                  r == ensureManagementServerConfigVersion(w, NoFailure)
              IN  IF OutdatedManagementNodes = {}
                  THEN r.res = "continue" /\ r.w.ops = << >> /\ r.w.nodes = nodes
                  ELSE /\ r.res = "requeue5"
                       /\ \E m \in OutdatedManagementNodes :
                             /\ \A n \in OutdatedManagementNodes : m <= n
                             /\ r.w.ops = << Op("StopNodes", "mgmd", {m}) >>
                             /\ r.w.nodes = StopNodes(nodes, {m})
        /\ Cardinality(ManagementStops(tick'.ops)) <= 1
        /\ \A j \in ManagementStops(tick'.ops) :
              /\ j = Len(tick'.ops)
              /\ tick'.verdict = "requeue5"
              /\ \E m \in OutdatedManagementNodes :
                    /\ \A n \in OutdatedManagementNodes : m <= n
                    /\ tick'.ops[j].ids = {m}
              /\ \A n \in MgmdIds(ndb.spec) :
                    nodes'[n].status = "stopping" /\ nodes[n].status # "stopping"
                       => tick'.ops[j].ids = {n}
        /\ (\E j \in DOMAIN tick'.ops :
               \/ IsStopOf(tick'.ops[j], "ndbd")
               \/ tick'.ops[j].op \in {"UpdateStatus", "Event"} /\ tick'.ops[j].kind # "ResourceExists"
               \/ tick'.ops[j].op = "Patch" /\ tick'.ops[j].kind = "configmap")
              => OutdatedManagementNodes = {} ]_vars

\* a tick stopped management node 2 and nothing else; node 1 reports the
\* stored generation
C34_Witness ==
    /\ tick.verdict = "requeue5"
    /\ tick.ops = << Op("StopNodes", "mgmd", {2}) >>
    /\ nodes[2].status = "stopping"
    /\ nodes[1].status = "up"
    /\ nodes[1].gen = StoredGeneration(k8s)
    /\ nodes[2].gen # StoredGeneration(k8s)

\* C35: a tick in which a StopNodes request failed returns an error, never
\* requeue(5).
C35_FailedStopIsError ==
    \A j \in DOMAIN tick.ops :
        tick.ops[j].op = "StopNodesFailed" => tick.verdict = "error"

\* the context of a rollout phase run now: the summary is the stored config
PhaseContext ==
    [TickContext(TRUE) EXCEPT !.rc = NewResourceContextFromConfiguration(k8s.cm)]

\* no request of ops stops a node
NoStopIn(ops) ==
    \A j \in DOMAIN ops : ~IsStopOf(ops[j], "mgmd") /\ ~IsStopOf(ops[j], "ndbd")

\* C36: a rollout phase run when every node of its type reports the target
\* generation issues no stop, whichever of its calls fails, and returns
\* continue when none fails; in the data phase a call that fails (the
\* connect, the read of the config version of a candidate, the stop) ends
\* the phase with an error and with no node stopped.  So a tick that ends
\* with an error has stopped no data node.
C36_PhasesIdempotent ==
    [][ /\ k8s.cm.exists =>
              LET w  == PhaseContext
                  m0 == ensureManagementServerConfigVersion(w, NoFailure)
                  d0 == ensureDataNodeConfigVersion(w, NoFailure)
              IN  /\ OutdatedManagementNodes = {} =>
                        /\ m0.res = "continue" /\ m0.w.ops = << >> /\ m0.w.nodes = nodes
                        /\ \A f \in Failures(m0) :
                              LET m == ensureManagementServerConfigVersion(w, f)
                              IN  NoStopIn(m.w.ops) /\ m.w.nodes = nodes
                  /\ OutdatedDataNodes = {} =>
                        /\ d0.res = "continue" /\ d0.w.ops = << >> /\ d0.w.nodes = nodes
                        /\ d0.w.calls = 1 + ndb.spec.nodeCount
                  /\ d0.w.calls >= 2
                  /\ \A k \in 1..d0.w.calls :
                        LET d == ensureDataNodeConfigVersion(w, << k, "error" >>)
                        IN  /\ d.res = "error"
                            /\ d.w.ops = << >>
                            /\ d.w.nodes = nodes
                            /\ d.w.sessions = 0
        /\ tick'.verdict = "error" =>
              \A j \in DOMAIN tick'.ops : ~IsStopOf(tick'.ops[j], "ndbd")
        /\ (tick'.verdict # "none" /\ OutdatedManagementNodes = {} /\ OutdatedDataNodes = {})
              => NoStopIn(tick'.ops) ]_vars

\* a tick ended with an error and without a request while data nodes of a
\* healthy cluster were outdated and the management nodes were not
C36_Witness ==
    /\ tick.verdict = "error"
    /\ tick.ops = << >>
    /\ tick.sessions = 0
    /\ k8s.cm.exists
    /\ OutdatedManagementNodes = {}
    /\ OutdatedDataNodes # {}
    /\ \A n \in DOMAIN nodes : nodes[n].status = "up"
    /\ StoredGeneration(k8s) >= 2

\* the SQL workload exists and its previous update is not rolled out
RolloutInFlight == k8s.mysqldSfset.exists /\ ~k8s.mysqldSfset.updateComplete

\* C37: while the SQL workload exists and its previous update is not rolled
\* out, HandleScaleDown returns finish and changes nothing, whatever scale
\* down the stored config asks for; the tick that runs it issues no request
\* and leaves every object and node as it was, with verdict finish (or
\* requeue(5) or an error from the checks before it).
C37_RolloutInFlightFinishes ==
    [][ RolloutInFlight =>
            /\ k8s.cm.exists
            /\ \A f \in {NoFailure} \cup ((1..3) \X {"error"}) :
                  HandleScaleDown(PhaseContext, f) = Ret("finish", PhaseContext)
            /\ tick'.verdict # "none" =>
                  /\ tick'.verdict \in {"finish", "requeue5", "error"}
                  /\ tick'.ops = << >>
                  /\ k8s' = k8s /\ nodes' = nodes /\ ndb' = ndb
            /\ (IsHealthy(nodes) /\ AllResourcesExist(k8s)) =>
                  sync(TickContext(TRUE), NoFailure).res = "finish" ]_vars

\* a tick finished without a request while the update of the SQL workload
\* was rolling and more MySQL Servers ran than the stored config has
C37_Witness ==
    /\ tick.verdict = "finish"
    /\ tick.ops = << >>
    /\ RolloutInFlight
    /\ k8s.mysqldSfset.statusReplicas > Len(k8s.cm.mysqldIds)
    /\ \A n \in DOMAIN nodes : nodes[n].status = "up"

\* HandleScaleDown has to scale the MySQL Servers down to none
ScaleDownToZero ==
    /\ k8s.cm.exists
    /\ Len(k8s.cm.mysqldIds) = 0
    /\ k8s.mysqldSfset.exists
    /\ k8s.mysqldSfset.updateComplete
    /\ k8s.mysqldSfset.statusReplicas > 0

\* the deletions of a scale down to none, in their order; the secret is
\* deleted when it exists and the operator owns it
DeletionSteps(k) ==
    << Op("Delete", "rootuser", {}) >>
    \o (IF k.secret.exists /\ k.secret.owned THEN << Op("Delete", "secret", {}) >> ELSE << >>)
    \o << Op("Delete", "mysqld", {}) >>

\* C38: HandleScaleDown with target 0 deletes the root user, then the
\* secret the operator owns, then the workload, and returns finish.  When
\* the k-th of these deletions fails it returns an error after exactly the
\* k-1 deletions before it, the workload still there; a delete of a secret
\* that is found gone counts as done.  Run again on what a failed run left,
\* it does the deletions that remain and returns finish with the root user,
\* the owned secret and the workload gone.
C38_DeletionOrder ==
    [][ ScaleDownToZero =>
            LET w     == PhaseContext
                steps == DeletionSteps(k8s)
                h0    == HandleScaleDown(w, NoFailure)
                \* the calls of the deletions: the root user first, the
                \* workload last, the secret third after the ownership read
                calls == << 1 >>
                         \o (IF Len(steps) = 3 THEN << 3 >> ELSE << >>)
                         \o << h0.w.calls >>
            IN  /\ h0.res = "finish"
                /\ h0.w.ops = steps
                /\ ~h0.w.k8s.rootUser
                /\ ~h0.w.k8s.mysqldSfset.exists
                /\ k8s.secret.owned => ~h0.w.k8s.secret.exists
                /\ ~k8s.secret.owned => h0.w.k8s.secret = k8s.secret
                /\ \A k \in DOMAIN steps :
                      LET h == HandleScaleDown(w, << calls[k], "error" >>)
                          again == HandleScaleDown([w EXCEPT !.k8s = h.w.k8s], NoFailure)
                      IN  /\ h.res = "error"
                          /\ h.w.ops = SubSeq(steps, 1, k - 1)
                          /\ h.w.k8s.mysqldSfset = k8s.mysqldSfset
                          /\ again.res = "finish"
                          /\ again.w.ops = DeletionSteps(h.w.k8s)
                          /\ again.w.k8s = h0.w.k8s
                /\ \A o \in h0.w.others :
                      LET h == HandleScaleDown(w, << o, "other" >>)
                      IN  /\ h.res = "finish"
                          /\ h.w.ops = << Op("Delete", "rootuser", {}),
                                          Op("Delete", "mysqld", {}) >>
                          /\ ~h.w.k8s.mysqldSfset.exists
                /\ tick'.verdict # "none" =>
                      \E k \in 0..Len(steps) :
                          /\ tick'.ops \in { SubSeq(steps, 1, k),
                                             << steps[1], steps[Len(steps)] >> }
                          /\ tick'.verdict = "finish" <=> ~k8s'.mysqldSfset.exists ]_vars

\* the tick run again after a failed one deleted what remained: the secret
\* was deleted by the failed tick, the root user and the workload by this one
C38_Witness ==
    /\ tick.verdict = "finish"
    /\ tick.ops = << Op("Delete", "rootuser", {}), Op("Delete", "mysqld", {}) >>
    /\ Minted
    /\ ~k8s.secret.exists
    /\ ~k8s.mysqldSfset.exists
    /\ ~k8s.rootUser

\* the SyncContext of a sync that ended, successful or not, with the
\* workloads ready
SyncEndedWith(success) ==
    [ syncSuccess   |-> success,
      podErrors     |-> FALSE,
      mgmdNodeSfset |-> [ exists |-> TRUE, readyReplicas |-> 2 ],
      dataNodeSfSet |-> [ exists |-> TRUE, readyReplicas |-> 4 ],
      mysqldSfset   |-> [ exists |-> FALSE, readyReplicas |-> 0 ] ]

DataPhaseRan(ops) ==
    \E j \in DOMAIN ops :
        \/ IsStopOf(ops[j], "ndbd")
        \/ ops[j].op = "UpdateStatus"
        \/ ops[j].op = "Event" /\ ops[j].kind \in {"InSync", "SyncSuccess"}
        \/ ops[j].op = "Create" /\ ops[j].kind \in {"mysqld", "secret", "rootuser"}
        \/ ops[j].op = "Patch" /\ ops[j].kind \in {"configmap", "service"}

\* every node group of the cluster status has at least as many node ids as
\* the redundancyLevel of the summary rc, and there are as many groups as
\* the summary has data nodes for
GroupsComplete(nds, spec, rc) ==
    /\ rc.RedundancyLevel >= 1
    /\ Nodegroups(spec) # {}
    /\ Cardinality(Nodegroups(spec)) * rc.RedundancyLevel = rc.NumOfDataNodes
    /\ \A g \in Nodegroups(spec) :
          Cardinality(ConnectedNodesOfNodegroup(nds, spec, g)) >= rc.RedundancyLevel

\* C40: whenever the data phase runs, every node group of the cluster
\* status holds at least RedundancyLevel (of the stored config) node ids, so
\* the i-th node of every group exists for every i the loop asks for, and the
\* groups are the ones the loop walks.
C40_NodeGroupsComplete ==
    [][ /\ \A b \in BOOLEAN :
              LET w0 == TickContext(b)
                  e  == ensureAllResources(w0, NoFailure)
                  p  == checkPodsReadiness(e.w, NoFailure)
                  h  == clusterHealthy(p.w, NoFailure)
                  s  == HandleScaleDown(h.w, NoFailure)
                  m  == ensureManagementServerConfigVersion(s.w, NoFailure)
              IN  (~stopSync(e) /\ ~stopSync(p) /\ ~stopSync(h) /\ ~stopSync(s) /\ ~stopSync(m))
                        => /\ GroupsComplete(m.w.nodes, ndb.spec, m.w.rc)
                           /\ \A g \in Nodegroups(ndb.spec) :
                                 ConnectedNodesOfNodegroup(m.w.nodes, ndb.spec, g)
                                    = Range(GetNodesGroupedByNodegroup(m.w)[g])
        /\ DataPhaseRan(tick'.ops)
              => /\ k8s.cm.exists
                 /\ GroupsComplete(nodes, ndb.spec, NewResourceContextFromConfiguration(k8s.cm)) ]_vars

\* a tick stopped data nodes after a data node had crashed and come back
C40_Witness ==
    /\ \E j \in DOMAIN tick.ops : IsStopOf(tick.ops[j], "ndbd")
    /\ crashes >= 1
    /\ ndb.spec.redundancyLevel = 2
    /\ \A g \in Nodegroups(ndb.spec) :
          Cardinality(ConnectedNodesOfNodegroup(nodes, ndb.spec, g)) = 2

====
